---- MODULE Spec2Model ----
(***************************************************************************)
(* Nearby-places fetch / cache / normalisation layer of src/utils/osm.ts:  *)
(* fetchNearbyOsmPlaces (resolve) and overpassFetch (fetch with failover). *)
(* Each call is modelled down to its await points; the cache is the        *)
(* module-scoped Map shared by every call.                                 *)
(***************************************************************************)
EXTENDS Integers, Sequences, FiniteSets, TLC

\* ------------------------------------------------------------------ bounds
\* elements in one response
MaxElems == 2
\* the clock stops advancing here (ms)
MaxNow == 90000
\* the step by which idle time passes (ms)
TickStep == 30000

\* ------------------------------------------------------- program constants
CACHE_TTL_MS == 60000
ATTEMPT_TIMEOUT_MS == 12000
MAX_ATTEMPTS == 3
BACKOFF_MS == 400
DEFAULT_LIMIT == 30
MIN_LIMIT == 1
MAX_LIMIT == 50
MIN_RADIUS == 100
MAX_RADIUS == 50000

RECENT_MAX == 10
SAVED_MAX == 25

OVERPASS_ENDPOINTS ==
  << "https://overpass-api.de/api/interpreter",
     "https://overpass.kumi.systems/api/interpreter",
     "https://overpass.nchc.org.tw/api/interpreter" >>

Max(a, b) == IF a > b THEN a ELSE b
Min(a, b) == IF a < b THEN a ELSE b

\* --------------------------------------------------------- JavaScript values
\* A value is a record tagged by t: undefined, null, num, str (a sequence of
\* one-character strings) or obj (a mapping from property names to values).
U == [t |-> "undefined"]
Null == [t |-> "null"]
Num(n) == [t |-> "num", n |-> n]
Str(s) == [t |-> "str", s |-> s]
Obj(f) == [t |-> "obj", f |-> f]
Arr(a) == [t |-> "arr", a |-> a]

IsNullish(v) == v.t \in {"undefined", "null"}

\* v.p for a value that is not null/undefined (a primitive has no such property)
Prop(v, p) == IF v.t = "obj" /\ p \in DOMAIN v.f THEN v.f[p] ELSE U

\* Boolean(v)
Truthy(v) ==
  CASE v.t = "undefined" -> FALSE
    [] v.t = "null" -> FALSE
    [] v.t = "num" -> v.n # 0
    [] v.t = "str" -> v.s # <<>>
    [] OTHER -> TRUE

\* a || b
OrElse(a, b) == IF Truthy(a) THEN a ELSE b

\* ------------------------------------------------------------------ strings
Lower(ch) ==
  CASE ch = "A" -> "a"
    [] ch = "B" -> "b"
    [] ch = "C" -> "c"
    [] OTHER -> ch

\* String.prototype.toLowerCase
ToLowerCase(s) == [i \in 1..Len(s) |-> Lower(s[i])]

IsSpace(ch) == ch = " "

RECURSIVE TrimStart(_)
TrimStart(s) == IF s # <<>> /\ IsSpace(Head(s)) THEN TrimStart(Tail(s)) ELSE s

RECURSIVE TrimEnd(_)
TrimEnd(s) ==
  IF s # <<>> /\ IsSpace(s[Len(s)]) THEN TrimEnd(SubSeq(s, 1, Len(s) - 1)) ELSE s

\* String.prototype.trim
Trim(s) == TrimEnd(TrimStart(s))

\* String.prototype.includes
Includes(s, sub) ==
  \E i \in 0..(Len(s) - Len(sub)) : SubSeq(s, i + 1, i + Len(sub)) = sub

\* Array.prototype.join over a sequence of strings
RECURSIVE Join(_, _)
Join(parts, sep) ==
  IF parts = <<>> THEN <<>>
  ELSE IF Len(parts) = 1 THEN parts[1]
  ELSE parts[1] \o sep \o Join(Tail(parts), sep)

\* Array.prototype.slice(0, n)
Slice(s, n) == SubSeq(s, 1, Min(Len(s), Max(n, 0)))

Digits == <<"0", "1", "2", "3", "4", "5", "6", "7", "8", "9">>

\* String(v) as used by join and by template literals
ToStr(v) ==
  CASE v.t = "str" -> v.s
    [] v.t = "num" -> IF v.n \in 0..9 THEN <<Digits[v.n + 1]>> ELSE <<"#">>
    [] v.t = "undefined" -> <<"undefined">>
    [] v.t = "null" -> <<"null">>
    [] OTHER -> <<"[object Object]">>

\* ----------------------------------------------------------------- requests
\* A request is (origin, options): lat and lng are in millionths of a degree,
\* limit and query are optional (U when omitted).
Request(lat, lng, radiusMeters, kinds, limit, query) ==
  [lat |-> lat, lng |-> lng, radiusMeters |-> radiusMeters, kinds |-> kinds,
   limit |-> limit, query |-> query]

\* Math.max(100, Math.min(options.radiusMeters, 50_000))
ClampRadius(r) == Max(MIN_RADIUS, Min(r.radiusMeters, MAX_RADIUS))

\* Math.max(1, Math.min(options.limit ?? 30, 50))
ClampLimit(r) ==
  Max(MIN_LIMIT, Min(IF IsNullish(r.limit) THEN DEFAULT_LIMIT ELSE r.limit.n, MAX_LIMIT))

Clauses3(tag) == << <<"node", tag>>, <<"way", tag>>, <<"relation", tag>> >>

KnownKinds == {"restaurant", "hospital", "police", "bus_station", "attraction"}

\* a lookup that builds an amenity clause for a kind it does not know
kindToOverpassAnyKind(k) ==
  CASE k = "restaurant" -> Clauses3("amenity=restaurant")
    [] k = "hospital" -> Clauses3("amenity=hospital")
    [] k = "police" -> Clauses3("amenity=police")
    [] k = "bus_station" -> Clauses3("amenity=bus_station") \o Clauses3("highway=bus_stop")
    [] k = "attraction" ->
         Clauses3("tourism=attraction") \o Clauses3("tourism=museum")
           \o Clauses3("historic") \o Clauses3("amenity=place_of_worship")
    [] OTHER -> Clauses3(k)

\* a table that looks for bus stops among the nodes only
kindToOverpassStopsAsNodes(k) ==
  CASE k = "restaurant" -> Clauses3("amenity=restaurant")
    [] k = "hospital" -> Clauses3("amenity=hospital")
    [] k = "police" -> Clauses3("amenity=police")
    [] k = "bus_station" -> Clauses3("amenity=bus_station") \o << <<"node", "highway=bus_stop">> >>
    [] k = "attraction" ->
         Clauses3("tourism=attraction") \o Clauses3("tourism=museum")
           \o Clauses3("historic") \o Clauses3("amenity=place_of_worship")
    [] OTHER -> <<>>

\* kindToOverpass[k] ?? []
kindToOverpass(k) ==
  CASE k = "restaurant" -> Clauses3("amenity=restaurant")
    [] k = "hospital" -> Clauses3("amenity=hospital")
    [] k = "police" -> Clauses3("amenity=police")
    [] k = "bus_station" -> Clauses3("amenity=bus_station") \o Clauses3("highway=bus_stop")
    [] k = "attraction" ->
         Clauses3("tourism=attraction") \o Clauses3("tourism=museum")
           \o Clauses3("historic") \o Clauses3("amenity=place_of_worship")
    [] OTHER -> <<>>

\* options.kinds.flatMap((k) => kindToOverpass[k] ?? [])
RECURSIVE Parts(_)
Parts(kinds) ==
  IF kinds = <<>> THEN <<>> ELSE kindToOverpass(Head(kinds)) \o Parts(Tail(kinds))

\* an around filter built from the radius as given
AroundUnclamped(r) == [radius |-> r.radiusMeters, lat |-> r.lat, lng |-> r.lng]

\* `(around:${radius},${origin.lat},${origin.lng})`
Around(r) == [radius |-> ClampRadius(r), lat |-> r.lat, lng |-> r.lng]

\* the query q sent to the provider: one statement `${p}${around};` per clause,
\* in the order of the clauses, and the statement `out center ${limit};`
Query(r) ==
  [stmts |-> [i \in 1..Len(Parts(r.kinds)) |->
                [clause |-> Parts(r.kinds)[i], around |-> Around(r)]],
   out |-> ClampLimit(r)]

\* (options.query ?? '').trim().toLowerCase()
QueryLower(r) == IF IsNullish(r.query) THEN <<>> ELSE ToLowerCase(Trim(r.query.s))

\* Number.prototype.toFixed(5) of a coordinate given in millionths: the nearest
\* hundred-thousandth, ties away from zero
ToFixed5(x) == IF x >= 0 THEN (x + 5) \div 10 ELSE -((5 - x) \div 10)

\* options.kinds.join(',')
KindsJoin(kinds) == Join([i \in 1..Len(kinds) |-> <<kinds[i]>>], <<",">>)

\* a key built from the origin as given, not rounded
CacheKeyExactOrigin(r) == <<r.lat, r.lng, ClampRadius(r), KindsJoin(r.kinds), QueryLower(r)>>

\* a key that leaves the radius out
CacheKeyNoRadius(r) == <<ToFixed5(r.lat), ToFixed5(r.lng), KindsJoin(r.kinds), QueryLower(r)>>

\* the cache key: the "|"-separated fields of the template literal
CacheKey(r) ==
  <<ToFixed5(r.lat), ToFixed5(r.lng), ClampRadius(r), KindsJoin(r.kinds), QueryLower(r)>>

\* --------------------------------------------------------- normalisation
Thrown == [k |-> "throw"]
Dropped == [k |-> "null"]
Kept(p) == [k |-> "place", p |-> p]

EmptyObj == Obj([x \in {} |-> U])

\* typeof el.lat === 'number' ? el.lat : el.center?.lat
Coord(el, direct, inCenter) ==
  IF Prop(el, direct).t = "num" THEN Prop(el, direct)
  ELSE IF IsNullish(Prop(el, "center")) THEN U
  ELSE Prop(Prop(el, "center"), inCenter)

\* tags.name || tags.brand || tags.operator || ''
RawNameValue(tags) ==
  OrElse(OrElse(OrElse(Prop(tags, "name"), Prop(tags, "brand")), Prop(tags, "operator")),
         Str(<<>>))

\* the five address components, before filter(Boolean)
AddressParts(tags) ==
  << Prop(tags, "addr:housenumber"),
     Prop(tags, "addr:street"),
     Prop(tags, "addr:suburb"),
     OrElse(OrElse(Prop(tags, "addr:city"), Prop(tags, "addr:town")), Prop(tags, "addr:village")),
     Prop(tags, "addr:state") >>

\* a join that keeps a place for an absent component
AddressKeepAbsent(tags) ==
  Join([i \in 1..Len(AddressParts(tags)) |->
          IF Truthy(AddressParts(tags)[i]) THEN ToStr(AddressParts(tags)[i]) ELSE <<>>],
       <<",", " ">>)

\* addressParts.filter(Boolean).join(', ')
Address(tags) ==
  LET present == SelectSeq(AddressParts(tags), Truthy)
  IN Join([i \in 1..Len(present) |-> ToStr(present[i])], <<",", " ">>)

\* the callback without the check of the name
NormalizeElKeepUnnamed(el) ==
  IF IsNullish(el) THEN Thrown
  ELSE
    LET tags == IF IsNullish(Prop(el, "tags")) THEN EmptyObj ELSE Prop(el, "tags")
        lat == Coord(el, "lat", "lat")
        lng == Coord(el, "lon", "lon")
        raw == RawNameValue(tags)
    IN IF lat.t # "num" \/ lng.t # "num" THEN Dropped
       ELSE IF raw.t # "str" THEN Thrown
       ELSE Kept([id |-> ToStr(Prop(el, "type")) \o <<"/">> \o ToStr(Prop(el, "id")),
                  name |-> Trim(raw.s),
                  address |-> Address(tags),
                  lat |-> lat.n,
                  lng |-> lng.n,
                  tags |-> tags])

\* the callback of elements.map: a place, null (discarded) or a TypeError
NormalizeEl(el) ==
  IF IsNullish(el) THEN Thrown
  ELSE
    LET tags == IF IsNullish(Prop(el, "tags")) THEN EmptyObj ELSE Prop(el, "tags")
        lat == Coord(el, "lat", "lat")
        lng == Coord(el, "lon", "lon")
        raw == RawNameValue(tags)
    IN IF lat.t # "num" \/ lng.t # "num" THEN Dropped
       ELSE IF raw.t # "str" THEN Thrown
       ELSE IF Trim(raw.s) = <<>> THEN Dropped
       ELSE Kept([id |-> ToStr(Prop(el, "type")) \o <<"/">> \o ToStr(Prop(el, "id")),
                  name |-> Trim(raw.s),
                  address |-> Address(tags),
                  lat |-> lat.n,
                  lng |-> lng.n,
                  tags |-> tags])

\* Array.isArray(data.elements) ? data.elements : []
Elements(data) == IF Prop(data, "elements").t = "arr" THEN Prop(data, "elements").a ELSE <<>>

IsKept(x) == x.k = "place"

\* elements.map(...).filter(Boolean)
Mapped(elements) ==
  LET kept == SelectSeq([i \in 1..Len(elements) |-> NormalizeEl(elements[i])], IsKept)
  IN [i \in 1..Len(kept) |-> kept[i].p]

\* a text filter that looks at the name alone
FilteredByName(mapped, queryLower) ==
  IF queryLower # <<>>
  THEN LET Match(p) == Includes(ToLowerCase(p.name), queryLower)
       IN SelectSeq(mapped, Match)
  ELSE mapped

\* the text filter over name and address
Filtered(mapped, queryLower) ==
  IF queryLower # <<>>
  THEN LET Match(p) == \/ Includes(ToLowerCase(p.name), queryLower)
                       \/ Includes(ToLowerCase(p.address), queryLower)
       IN SelectSeq(mapped, Match)
  ELSE mapped

\* data.elements.map(...) without the Array.isArray guard
NormalizeThrowsUnguarded(data) ==
  \/ IsNullish(data)
  \/ Prop(data, "elements").t # "arr"
  \/ \E i \in 1..Len(Elements(data)) : NormalizeEl(Elements(data)[i]).k = "throw"

\* whether lines 121-152 throw on this parsed response
NormalizeThrows(data) ==
  \/ IsNullish(data)
  \/ \E i \in 1..Len(Elements(data)) : NormalizeEl(Elements(data)[i]).k = "throw"

\* filtered.slice(0, limit) of a response that does not throw
ResultOf(data, r) == Slice(Filtered(Mapped(Elements(data)), QueryLower(r)), ClampLimit(r))

\* ------------------------------------------------------------ the inputs
\* requests issued by callers: a base request and one-field variations of it
BaseReq == Request(123454, 771230, 2000, <<"restaurant", "hospital">>, Num(2), U)

\* the same cache key as BaseReq, written differently: another origin within the
\* same hundred-thousandth, a radius above the maximum, a blank text filter
LimitOne == [BaseReq EXCEPT !.limit = Num(1)]
Permuted == [BaseReq EXCEPT !.kinds = <<"hospital", "restaurant">>]
Filtering == [BaseReq EXCEPT !.query = Str(<<" ", "A", "b">>)]
FilteringToo == [BaseReq EXCEPT !.query = Str(<<"a", "B", " ">>), !.lat = 123446]
Wide == [BaseReq EXCEPT !.radiusMeters = 50000]
Wider == [BaseReq EXCEPT !.radiusMeters = 60000, !.query = Str(<<" ">>)]

\* a request for one category
KindReq(k) == [BaseReq EXCEPT !.kinds = <<k>>]

RequestGroups ==
  { {BaseReq, LimitOne, [BaseReq EXCEPT !.limit = Num(0)]},
    {BaseReq, [BaseReq EXCEPT !.limit = U], [BaseReq EXCEPT !.limit = Num(60)]},
    {BaseReq, Permuted},
    {BaseReq, [BaseReq EXCEPT !.kinds = <<>>], [BaseReq EXCEPT !.kinds = <<"cafe">>]},
    {Filtering, FilteringToo},
    {Wide, Wider} }

Requests == UNION RequestGroups

\* elements a provider may put in a response
Tags(name, brand) == Obj([name |-> name, brand |-> brand])

ElNode(id, tags) ==
  Obj([type |-> Str(<<"node">>), id |-> Num(id), lat |-> Num(12), lon |-> Num(77), tags |-> tags])

ElWay(id, tags) ==
  Obj([type |-> Str(<<"way">>), id |-> Num(id),
       center |-> Obj([lat |-> Num(13), lon |-> Num(78)]), tags |-> tags])

ElementPool ==
  { ElNode(1, Tags(Str(<<"A", "b">>), U)),
    ElWay(2, Tags(U, Str(<<"c", " ">>))),
    ElNode(3, Tags(Str(<<" ">>), Str(<<"b">>))),
    Null }

RECURSIVE SeqsUpTo(_, _)
SeqsUpTo(S, n) ==
  IF n = 0 THEN {<<>>}
  ELSE LET shorter == SeqsUpTo(S, n - 1)
       IN shorter \cup {Append(q, x) : q \in {t \in shorter : Len(t) = n - 1}, x \in S}

\* parsed response bodies: any JSON value
Payloads ==
  {Obj([elements |-> Arr(es)]) : es \in SeqsUpTo(ElementPool, MaxElems)}
    \cup { EmptyObj, Obj([elements |-> Num(1)]), Obj([elements |-> Null]),
           Obj([remark |-> Str(<<"a">>)]), Num(3), Arr(<<>>), Null }

\* a named element with the given location fields
Located(type, id, fields) ==
  Obj([p \in {"type", "id", "tags"} \cup DOMAIN fields |->
         CASE p = "type" -> Str(<<type>>)
           [] p = "id" -> Num(id)
           [] p = "tags" -> Tags(Str(<<"A", "b">>), U)
           [] OTHER -> fields[p]])

BothCenter == Obj([lat |-> Num(13), lon |-> Num(78)])

\* elements by where their coordinates are: a direct pair, a center pair, both,
\* one direct component next to a center, halves of each, strings, nothing
CoordPool ==
  { Located("node", 1, [lat |-> Num(12), lon |-> Num(77)]),
    Located("way", 2, [center |-> BothCenter]),
    Located("node", 3, [lat |-> Num(12), lon |-> Num(77), center |-> BothCenter]),
    Located("way", 4, [lat |-> Num(12), center |-> BothCenter]),
    Located("way", 5, [lat |-> Num(12), center |-> Obj([lon |-> Num(78)])]),
    Located("node", 6, [lat |-> Str(<<"1">>), lon |-> Str(<<"2">>), center |-> Null]),
    Located("relation", 7, [lon |-> Num(77)]) }

\* responses that hold elements of the coordinate pool
CoordPayloads == {Obj([elements |-> Arr(es)]) : es \in SeqsUpTo(CoordPool, MaxElems)}

\* a located, named element with the given address tags
Addressed(house, street, suburb, locality, state) ==
  Obj([type |-> Str(<<"node">>), id |-> Num(1), lat |-> Num(12), lon |-> Num(77),
       tags |-> Obj([p \in {"name", "addr:housenumber", "addr:street", "addr:suburb",
                             "addr:city", "addr:town", "addr:village", "addr:state"} |->
                       CASE p = "name" -> Str(<<"A", "b">>)
                         [] p = "addr:housenumber" -> house
                         [] p = "addr:street" -> street
                         [] p = "addr:suburb" -> suburb
                         [] p = "addr:city" -> locality[1]
                         [] p = "addr:town" -> locality[2]
                         [] p = "addr:village" -> locality[3]
                         [] OTHER -> state])])

\* city, town and village tags: none, all three, no city, an empty city and no town
Localities ==
  { <<U, U, U>>,
    <<Str(<<"c">>), Str(<<"w">>), Str(<<"v">>)>>,
    <<Null, Str(<<"w">>), Str(<<"v">>)>>,
    <<Str(<<>>), U, Str(<<"v">>)>> }

AddressPool ==
  { Addressed(house, street, suburb, locality, state) :
      house \in {U, Str(<<"1">>)}, street \in {U, Str(<<"s">>)},
      suburb \in {Str(<<>>), Str(<<"b">>)}, locality \in Localities,
      state \in {U, Str(<<"t">>)} }

\* responses of one element of the address pool
AddressPayloads == {Obj([elements |-> Arr(<<el>>)]) : el \in AddressPool}

\* a located element with a name and, possibly, a street
Labelled(id, name, street) ==
  Obj([type |-> Str(<<"node">>), id |-> Num(id), lat |-> Num(12), lon |-> Num(77),
       tags |-> Obj([p \in {"name", "addr:street"} |-> IF p = "name" THEN Str(name) ELSE street])])

\* names and addresses that hold "b" or "ab" in either case, in the name, in
\* the address, across the two, or nowhere
FilterPool ==
  { Labelled(1, <<"A", "b">>, U),
    Labelled(2, <<"c">>, Str(<<"a", "B">>)),
    Labelled(3, <<"a">>, Str(<<"b">>)),
    Labelled(4, <<"c">>, U) }

FilterPayloads == {Obj([elements |-> Arr(es)]) : es \in SeqsUpTo(FilterPool, MaxElems)}

\* requests without a text filter, with a blank one, with " B" and with "aB"
FilterReqs ==
  { [BaseReq EXCEPT !.limit = U, !.query = q] :
      q \in {U, Str(<<" ">>), Str(<<" ", "B">>), Str(<<"a", "B">>)} }

\* a located element with the given name, brand and operator tags
Branded(name, brand, operator) ==
  Obj([type |-> Str(<<"node">>), id |-> Num(1), lat |-> Num(12), lon |-> Num(77),
       tags |-> Obj([name |-> name, brand |-> brand, operator |-> operator])])

\* a name tag that is absent, empty, blank or "A", with or without a brand and an
\* operator behind it
NamePool ==
  { Branded(name, brand, operator) :
      name \in {U, Str(<<>>), Str(<<" ">>), Str(<<"A">>)},
      brand \in {U, Str(<<"b">>)},
      operator \in {U, Str(<<" ", "o">>)} }

\* responses of one element of the name pool
NamePayloads == {Obj([elements |-> Arr(<<el>>)]) : el \in NamePool}

\* the ways an attempt fails: fetch rejects with a TypeError, the status is not
\* ok, the timeout aborts the request, the body does not parse, or fetch rejects
\* with a value that is no Error (a replaced global fetch may)
Faults == {"network", "status", "abort", "syntax", "foreign"}

\* a world fixes which slots callers use, which requests they issue and what the
\* provider may do; a run stays in its world
Slots == {1, 2}

FewPayloads == {Obj([elements |-> Arr(es)]) : es \in SeqsUpTo(ElementPool, 1)} \cup {EmptyObj}

World(slots, reqs, faults, payloads) ==
  [slots |-> slots, reqs |-> reqs, faults |-> faults, payloads |-> payloads, holds |-> <<>>]

\* a provider that runs the query over the elements it holds: `out center n`
\* prints the first n elements of the result set
Overpass(q, holds) == Obj([elements |-> Arr(Slice(holds, q.out))])

\* what a provider may hold that matches the clauses of a query
Holdings == SeqsUpTo(ElementPool \ {Null}, MaxElems)

\* one caller issuing the requests of a group to a provider that answers anything
\* and fails by status only; one caller and a provider that fails in every way;
\* two concurrent callers and a provider that does not fail
Worlds ==
  {World({1}, g, {"status"}, "all") : g \in RequestGroups}
    \cup {World({1}, {BaseReq, LimitOne}, Faults, "few")}
    \cup {World(Slots, {BaseReq, LimitOne}, {}, "few")}

\* a response with a place in it and one without
PairPayloads == {Obj([elements |-> Arr(<<ElNode(1, Tags(Str(<<"A", "b">>), U))>>)]), EmptyObj}

\* callers of two fingerprints: two concurrent ones and a provider that does not
\* fail, one alone and a provider that fails in every way
FrameWorlds ==
  { World(Slots, {BaseReq, Wide}, {}, "pair"),
    World({1}, {BaseReq, Wide}, Faults, "pair") }

\* one caller and a provider that fails in every way and may stop answering
LiveWorlds == { World({1}, {BaseReq}, Faults, "pair") }

\* one caller and a provider whose responses exercise one part of the normaliser
NormalizeWorlds ==
  { World({1}, {BaseReq}, {"status", "abort", "syntax"}, "coords"),
    World({1}, {BaseReq}, {}, "address"),
    World({1}, {BaseReq}, {}, "names") }
    \cup {World({1}, {r}, {}, "filter") : r \in FilterReqs}
    \cup {World({1}, {KindReq(k)}, {}, "pair") : k \in KnownKinds}
    \cup {[World({1}, {BaseReq, LimitOne}, {}, "overpass") EXCEPT !.holds = h] : h \in Holdings}

\* how long a run is watched: a provider that fails in every way is watched
\* through a whole retry budget after an entry has expired
Horizon(w) == IF w.faults = Faults THEN MaxNow + 2 * TickStep ELSE MaxNow

PayloadsOf(w) ==
  CASE w.payloads = "all" -> Payloads
    [] w.payloads = "coords" -> CoordPayloads
    [] w.payloads = "address" -> AddressPayloads
    [] w.payloads = "filter" -> FilterPayloads
    [] w.payloads = "pair" -> PairPayloads
    [] w.payloads = "names" -> NamePayloads
    [] OTHER -> FewPayloads

\* the parsed bodies the provider of a world may answer a request with
Responses(w, r) ==
  IF w.payloads = "overpass" THEN {Overpass(Query(r), w.holds)} ELSE PayloadsOf(w)

\* ------------------------------------------------------------------ state
VARIABLES
  cache,     \* the module-scoped Map: cache key -> [at, data]
  now,       \* Date.now(), in ms
  calls,     \* per slot: the fetchNearbyOsmPlaces call running in it
  storedAt,  \* per request: when a resolve of it last stored a result
  world,     \* the world of this run
  restaurantsPage,  \* RestaurantsPage: its state, its refs, its pending requests
  busPage,          \* BusPage: the From pick, the bus stands, the pending requests
  mapPage,          \* MapPage: the route parameters, the route state, the fetches
  assistantPage,    \* AssistantPage: the geofence alerts and what was fired
  recentSearches,   \* the recoil atom recentSearchesState
  savedPlaces       \* the recoil atom savedPlacesState

\* the state of the pages that call the module
pages == <<restaurantsPage, busPage, mapPage, assistantPage, recentSearches, savedPlaces>>

vars == <<cache, now, calls, storedAt, world, pages>>

NoErr == [kind |-> "none", attempt |-> -1]
Err(kind, attempt) == [kind |-> kind, attempt |-> attempt]

\* new Error('Overpass request failed')
GenericErr == [kind |-> "generic", attempt |-> -1]

\* lastErr instanceof Error
IsError(e) == e.kind \in {"network", "status", "abort", "syntax"}

\* no query built yet
NoQuery == [stmts |-> <<>>, out |-> 0]

\* a slot in which no call is running
Idle ==
  [pc |-> "idle", req |-> BaseReq, attempt |-> 0, due |-> 0, lastErr |-> NoErr,
   log |-> <<>>, hits |-> <<>>, q |-> NoQuery, via |-> "none", touched |-> FALSE, hadEntry |-> FALSE, fetched |-> U,
   result |-> <<>>,
   error |-> NoErr]

\* entries of a call's log
Try(i) == <<"try", i>>
Sleep(ms) == <<"sleep", ms>>
Woke(ms) == <<"woke", ms>>

\* ------------------------------------------------------ the pages, mounted
\* RestaurantsPage after its mount effect has asked for the position
RestaurantsMounted ==
  [location |-> Null, locationLoading |-> TRUE, locationError |-> Null, locating |-> 1,
   searchQuery |-> <<>>, places |-> <<>>, loadingPlaces |-> FALSE, placesError |-> Null,
   inFlightRef |-> FALSE, lastRequestKeyRef |-> Null,
   pending |-> <<>>, invoked |-> 0]

\* BusPage with no From place picked
BusMounted ==
  [fromPick |-> Null, fromBusStands |-> <<>>, loadingStands |-> FALSE, standsError |-> Null,
   pending |-> <<>>, picked |-> 0]

\* MapPage opened without route parameters
MapMounted ==
  [searchParams |-> Null, origin |-> Null, destination |-> Null, route |-> Null,
   routeError |-> Null, fetches |-> <<>>, changed |-> 0, failed |-> FALSE,
   searchedPlace |-> Null, selectedPlace |-> Null, geocoding |-> <<>>, searches |-> 0]

\* AssistantPage with no alert set
AssistantMounted ==
  [alerts |-> <<>>, created |-> 0, position |-> Null, permission |-> "default"]

PagesInit ==
  /\ restaurantsPage = RestaurantsMounted
  /\ busPage = BusMounted
  /\ mapPage = MapMounted
  /\ assistantPage = AssistantMounted
  /\ recentSearches = <<>>
  /\ savedPlaces = <<>>

Init ==
  /\ cache = [k \in {} |-> 0]
  /\ now = 0
  /\ calls = [c \in Slots |-> Idle]
  /\ storedAt = [r \in {} |-> 0]
  /\ world \in Worlds
  /\ PagesInit

\* the module as loaded, in a world that exercises the normaliser
InitNormalize ==
  /\ cache = [k \in {} |-> 0]
  /\ now = 0
  /\ calls = [c \in Slots |-> Idle]
  /\ storedAt = [r \in {} |-> 0]
  /\ world \in NormalizeWorlds
  /\ PagesInit

\* the module as loaded, in a world of two fingerprints
InitFrame ==
  /\ cache = [k \in {} |-> 0]
  /\ now = 0
  /\ calls = [c \in Slots |-> Idle]
  /\ storedAt = [r \in {} |-> 0]
  /\ world \in FrameWorlds
  /\ PagesInit

\* the module as loaded, in a world whose provider may stop answering
InitLive ==
  /\ cache = [k \in {} |-> 0]
  /\ now = 0
  /\ calls = [c \in Slots |-> Idle]
  /\ storedAt = [r \in {} |-> 0]
  /\ world \in LiveWorlds
  /\ PagesInit

\* the freshness test with a time-to-live of 6 s
CacheFreshShortTtl(key, t) == key \in DOMAIN cache /\ 10 * (t - cache[key].at) < CACHE_TTL_MS

\* a lookup that also takes an expired entry while another call is fetching it
CacheFreshOrPending(key, t) ==
  /\ key \in DOMAIN cache
  /\ \/ t - cache[key].at < CACHE_TTL_MS
     \/ \E d \in Slots : calls[d].pc \in {"fetching", "reading", "sleeping"}
                            /\ CacheKey(calls[d].req) = key

\* a lookup that takes an entry only when its list has a place in it
CacheFreshNonEmpty(key, t) ==
  key \in DOMAIN cache /\ t - cache[key].at < CACHE_TTL_MS /\ cache[key].data # <<>>

\* cached && Date.now() - cached.at < 60_000
CacheFresh(key, t) == key \in DOMAIN cache /\ t - cache[key].at < CACHE_TTL_MS

\* a store that keeps an entry already present
MapSetIfAbsent(m, key, entry) ==
  [k \in DOMAIN m \cup {key} |-> IF k \in DOMAIN m THEN m[k] ELSE entry]

\* cache.set(key, entry)
MapSet(m, key, entry) == [k \in DOMAIN m \cup {key} |-> IF k = key THEN entry ELSE m[k]]

\* a settled promise's continuation runs as a microtask, before the event loop
\* takes its next task (a timer, a network event, a user action)
Quiescent == \A c \in Slots : calls[c].pc \notin {"done", "rejected"}

\* a choice of endpoint that stays with the first one
EndpointSticky(attempt) == OVERPASS_ENDPOINTS[1]

\* OVERPASS_ENDPOINTS[attempt % OVERPASS_ENDPOINTS.length]
Endpoint(attempt) == OVERPASS_ENDPOINTS[(attempt % Len(OVERPASS_ENDPOINTS)) + 1]

\* one iteration of the loop of overpassFetch up to `await fetch(endpoint, ...)`
Issue(call, attempt, t) ==
  [call EXCEPT !.pc = "fetching", !.attempt = attempt, !.due = t + ATTEMPT_TIMEOUT_MS,
               !.log = Append(@, Try(attempt)),
               !.hits = Append(@, Endpoint(attempt))]

\* fetchNearbyOsmPlaces up to its first await: the empty-clause short-circuit,
\* the cache lookup, or the first network request
Start(c, r) ==
  /\ Quiescent
  /\ calls[c].pc = "idle"
  /\ calls' = [calls EXCEPT ![c] =
       IF Parts(r.kinds) = <<>>
       THEN [Idle EXCEPT !.pc = "done", !.req = r, !.via = "empty"]
       ELSE IF CacheFresh(CacheKey(r), now)
       THEN [Idle EXCEPT !.pc = "done", !.req = r, !.via = "cache", !.touched = TRUE,
                         !.hadEntry = TRUE, !.q = Query(r),
                         !.result = cache[CacheKey(r)].data]
       ELSE Issue([Idle EXCEPT !.req = r, !.via = "network", !.touched = TRUE,
                               !.q = Query(r),
                               !.hadEntry = CacheKey(r) \in DOMAIN cache], 0, now)]
  /\ UNCHANGED <<cache, now, storedAt, world>>

\* a catch block whose backoff does not grow with the attempt
CatchFlat(call, kind, t) ==
  [call EXCEPT !.pc = "sleeping", !.lastErr = Err(kind, call.attempt),
               !.due = t + BACKOFF_MS, !.log = Append(@, Sleep(BACKOFF_MS))]

\* a catch block that keeps the first error it saw
CatchKeepFirst(call, kind, t) ==
  [call EXCEPT !.pc = "sleeping",
               !.lastErr = IF @ = NoErr THEN Err(kind, call.attempt) ELSE @,
               !.due = t + BACKOFF_MS * (call.attempt + 1),
               !.log = Append(@, Sleep(BACKOFF_MS * (call.attempt + 1)))]

\* the catch block: lastErr = e, then sleep(400 * (attempt + 1)) begins
Catch(call, kind, t) ==
  [call EXCEPT !.pc = "sleeping", !.lastErr = Err(kind, call.attempt),
               !.due = t + BACKOFF_MS * (call.attempt + 1),
               !.log = Append(@, Sleep(BACKOFF_MS * (call.attempt + 1)))]

\* fetch rejects (network error) or answers with a non-success status, before
\* the 12 s timer of the attempt runs out
FetchFail(c, kind) ==
  /\ Quiescent
  /\ calls[c].pc = "fetching"
  /\ now < calls[c].due
  /\ calls' = [calls EXCEPT ![c] = Catch(@, kind, now)]
  /\ UNCHANGED <<cache, now, storedAt, world>>

\* the 12 s timer has run out while fetch is pending: controller.abort(); a
\* fetch stays pending that long only on a provider that stalls
FetchTimeout(c) ==
  /\ Quiescent
  /\ calls[c].pc = "fetching"
  /\ "abort" \in world.faults
  /\ now >= calls[c].due
  /\ calls' = [calls EXCEPT ![c] = Catch(@, "abort", now)]
  /\ UNCHANGED <<cache, now, storedAt, world>>

\* fetch resolves with res.ok before the 12 s timer runs out: clearTimeout, then
\* `await res.json()`, on which no timer runs
FetchOk(c) ==
  /\ Quiescent
  /\ calls[c].pc = "fetching"
  /\ now < calls[c].due
  /\ calls' = [calls EXCEPT ![c].pc = "reading"]
  /\ UNCHANGED <<cache, now, storedAt, world>>

\* res.json() rejects: the body does not parse
BodyFail(c) ==
  /\ Quiescent
  /\ calls[c].pc = "reading"
  /\ "syntax" \in world.faults
  /\ calls' = [calls EXCEPT ![c] = Catch(@, "syntax", now)]
  /\ UNCHANGED <<cache, now, storedAt, world>>

\* res.json() resolves with data: overpassFetch returns it, and lines 121-160
\* run to the end without another await
BodyOk(c, data) ==
  /\ Quiescent
  /\ calls[c].pc = "reading"
  /\ IF NormalizeThrows(data)
     THEN /\ calls' = [calls EXCEPT ![c].pc = "rejected", ![c].fetched = data,
                                    ![c].error = Err("type", calls[c].attempt)]
          /\ UNCHANGED <<cache, storedAt, world>>
     ELSE /\ calls' = [calls EXCEPT ![c].pc = "done", ![c].fetched = data,
                                    ![c].result = ResultOf(data, calls[c].req)]
          /\ cache' = MapSet(cache, CacheKey(calls[c].req),
                             [at |-> now, data |-> ResultOf(data, calls[c].req)])
          /\ storedAt' = [r \in DOMAIN storedAt \cup {calls[c].req} |->
                            IF r = calls[c].req THEN now ELSE storedAt[r]]
  /\ UNCHANGED <<now, world>>

\* lastErr instanceof Error ? lastErr : new Error('Overpass request failed')
Surfaced(lastErr) == IF IsError(lastErr) THEN lastErr ELSE GenericErr

\* an end of the loop that stores an empty result before the throw
WakeStoresEmpty(c) ==
  /\ Quiescent
  /\ calls[c].pc = "sleeping"
  /\ now >= calls[c].due
  /\ calls' = [calls EXCEPT ![c] =
       LET woke == [@ EXCEPT !.log = Append(@, Woke(BACKOFF_MS * (calls[c].attempt + 1)))]
       IN IF calls[c].attempt + 1 < MAX_ATTEMPTS
          THEN Issue(woke, calls[c].attempt + 1, now)
          ELSE [woke EXCEPT !.pc = "rejected", !.error = Surfaced(calls[c].lastErr)]]
  /\ cache' = IF calls[c].attempt + 1 < MAX_ATTEMPTS THEN cache
              ELSE MapSet(cache, CacheKey(calls[c].req), [at |-> now, data |-> <<>>])
  /\ UNCHANGED <<now, storedAt, world>>

\* the sleep of the catch block ends: the loop goes on to the next attempt, or
\* ends and line 61 throws lastErr
Wake(c) ==
  /\ Quiescent
  /\ calls[c].pc = "sleeping"
  /\ now >= calls[c].due
  /\ calls' = [calls EXCEPT ![c] =
       LET woke == [@ EXCEPT !.log = Append(@, Woke(BACKOFF_MS * (calls[c].attempt + 1)))]
       IN IF calls[c].attempt + 1 < MAX_ATTEMPTS
          THEN Issue(woke, calls[c].attempt + 1, now)
          ELSE [woke EXCEPT !.pc = "rejected", !.error = Surfaced(calls[c].lastErr)]]
  /\ UNCHANGED <<cache, now, storedAt, world>>

\* the caller has consumed the settled promise; the slot is free again
Release(c) ==
  /\ calls[c].pc \in {"done", "rejected"}
  /\ calls' = [calls EXCEPT ![c] = Idle]
  /\ UNCHANGED <<cache, now, storedAt, world>>

\* time passes; Date.now() never goes back
TickSteps == {TickStep}

Tick(d) ==
  /\ Quiescent
  /\ now + d <= Horizon(world)
  /\ now' = now + d
  /\ UNCHANGED <<cache, calls, storedAt, world>>

Next ==
  \/ \E c \in world.slots, r \in world.reqs : Start(c, r) /\ UNCHANGED pages
  \/ \E c \in world.slots, kind \in world.faults \cap {"network", "status", "foreign"} : FetchFail(c, kind) /\ UNCHANGED pages
  \/ \E c \in world.slots : FetchTimeout(c) /\ UNCHANGED pages
  \/ \E c \in world.slots : FetchOk(c) /\ UNCHANGED pages
  \/ \E c \in world.slots : BodyFail(c) /\ UNCHANGED pages
  \/ \E c \in world.slots : \E data \in Responses(world, calls[c].req) : BodyOk(c, data) /\ UNCHANGED pages
  \/ \E c \in world.slots : Wake(c) /\ UNCHANGED pages
  \/ \E c \in world.slots : Release(c) /\ UNCHANGED pages
  \/ \E d \in TickSteps : Tick(d) /\ UNCHANGED pages

Spec == Init /\ [][Next]_vars

SpecNormalize == InitNormalize /\ [][Next]_vars

SpecFrame == InitFrame /\ [][Next]_vars

\* what the runtime guarantees: time passes, a timer that has run out fires (the
\* abort of a pending fetch, the end of a sleep), and a settled promise is
\* consumed; the provider is under no obligation to answer
Fairness ==
  /\ WF_vars(\E d \in TickSteps : Tick(d) /\ UNCHANGED pages)
  /\ \A c \in Slots :
       /\ WF_vars(FetchTimeout(c) /\ UNCHANGED pages)
       /\ WF_vars(Wake(c) /\ UNCHANGED pages)
       /\ WF_vars(Release(c) /\ UNCHANGED pages)

SpecLive == InitLive /\ [][Next]_vars /\ Fairness

\* ------------------------------------------------------------ the pages
\* A page is followed from its own side: a call of fetchNearbyOsmPlaces or of
\* fetch is a promise that is pending until it resolves or rejects; the module
\* above stays at rest.
AtRest ==
  /\ cache = [k \in {} |-> 0]
  /\ now = 0
  /\ calls = [c \in Slots |-> Idle]
  /\ storedAt = [r \in {} |-> 0]
  /\ world = World({}, {}, {}, "few")

osm == <<cache, now, calls, storedAt, world>>

InitPages == AtRest /\ PagesInit

\* the lists of places a call may resolve with
PlaceLists == {<<>>, <<"node/1">>, <<"node/2", "way/3">>}

\* ------------------------------------------------------- RestaurantsPage
\* how many invocations of fetchPlaces a run follows
MaxInvoked == 4

\* the positions the browser may report: two within the same hundred-thousandth
\* of a degree
Positions == { [lat |-> 123454, lng |-> 771230], [lat |-> 123446, lng |-> 771230] }

\* what the user may have typed into the search box
SearchTexts == {<<>>, <<"c">>, <<"C", " ">>}

\* `${lat.toFixed(5)},${lng.toFixed(5)}|${searchQuery.trim().toLowerCase()}`
RequestKey(p) ==
  [lat |-> ToFixed5(p.location.lat), lng |-> ToFixed5(p.location.lng),
   query |-> ToLowerCase(Trim(p.searchQuery))]

\* !!location && !locationLoading && !loadingPlaces
canSearch(p) == p.location # Null /\ ~p.locationLoading /\ ~p.loadingPlaces

\* fetchPlaces up to its await: the page after the invocation
fetchPlaces(p) ==
  IF p.location = Null THEN p
  ELSE IF p.inFlightRef THEN p
  ELSE IF p.lastRequestKeyRef = RequestKey(p) THEN p
  ELSE [p EXCEPT !.inFlightRef = TRUE, !.lastRequestKeyRef = RequestKey(p),
                 !.loadingPlaces = TRUE, !.placesError = Null,
                 !.pending = Append(@, [origin |-> p.location, query |-> p.searchQuery])]

\* getCurrentLocation of useGeolocation, up to the browser's answer
getCurrentLocation(p) ==
  [p EXCEPT !.locationLoading = TRUE, !.locationError = Null, !.locating = @ + 1]

RestaurantsOnly ==
  UNCHANGED <<osm, busPage, mapPage, assistantPage, recentSearches, savedPlaces>>

\* the success callback of getCurrentPosition, and the effect on [location]
\* that runs after the render it causes
PositionFound(l) ==
  /\ restaurantsPage.locating > 0
  /\ restaurantsPage.invoked < MaxInvoked
  /\ restaurantsPage' =
       fetchPlaces([restaurantsPage EXCEPT !.location = l, !.locationLoading = FALSE,
                                           !.locating = @ - 1, !.invoked = @ + 1])
  /\ RestaurantsOnly

\* the error callback of getCurrentPosition
PositionFailed ==
  /\ restaurantsPage.locating > 0
  /\ restaurantsPage' =
       [restaurantsPage EXCEPT !.locationError = Str(<<"Failed to get location.">>),
                               !.locationLoading = FALSE, !.locating = @ - 1]
  /\ RestaurantsOnly

\* the button "Try again", shown with a location error
TryAgain ==
  /\ ~restaurantsPage.locationLoading
  /\ restaurantsPage.locationError # Null
  /\ restaurantsPage' = getCurrentLocation(restaurantsPage)
  /\ RestaurantsOnly

\* onChange of the search box
TypeSearch(text) ==
  /\ restaurantsPage.searchQuery # text
  /\ restaurantsPage' = [restaurantsPage EXCEPT !.searchQuery = text]
  /\ RestaurantsOnly

\* the button "Search": onClick={fetchPlaces}, disabled={!canSearch}
ClickSearch ==
  /\ canSearch(restaurantsPage)
  /\ restaurantsPage.invoked < MaxInvoked
  /\ restaurantsPage' = fetchPlaces([restaurantsPage EXCEPT !.invoked = @ + 1])
  /\ RestaurantsOnly

\* the button "Refresh": onClick={refresh}, disabled={!canSearch}
refresh ==
  /\ canSearch(restaurantsPage)
  /\ restaurantsPage.invoked < MaxInvoked
  /\ restaurantsPage' =
       IF restaurantsPage.location = Null
       THEN getCurrentLocation(restaurantsPage)
       ELSE fetchPlaces([restaurantsPage EXCEPT !.invoked = @ + 1])
  /\ RestaurantsOnly

\* the pending sequence without its i-th promise
Without(seq, i) == SubSeq(seq, 1, i - 1) \o SubSeq(seq, i + 1, Len(seq))

\* fetchNearbyOsmPlaces resolves: the rest of the try block, then finally
PlacesResolved(i, results) ==
  /\ i \in 1..Len(restaurantsPage.pending)
  /\ restaurantsPage' =
       [restaurantsPage EXCEPT !.places = results, !.loadingPlaces = FALSE,
                               !.inFlightRef = FALSE, !.pending = Without(@, i)]
  /\ RestaurantsOnly

\* fetchNearbyOsmPlaces rejects: the catch block, then finally
PlacesRejected(i) ==
  /\ i \in 1..Len(restaurantsPage.pending)
  /\ restaurantsPage' =
       [restaurantsPage EXCEPT !.placesError = Str(<<"Overpass request failed">>),
                               !.loadingPlaces = FALSE,
                               !.inFlightRef = FALSE, !.pending = Without(@, i)]
  /\ RestaurantsOnly

NextRestaurants ==
  \/ \E l \in Positions : PositionFound(l)
  \/ PositionFailed
  \/ TryAgain
  \/ \E text \in SearchTexts : TypeSearch(text)
  \/ ClickSearch
  \/ refresh
  \/ \E i \in 1..MaxInvoked : \E results \in PlaceLists : PlacesResolved(i, results)
  \/ \E i \in 1..MaxInvoked : PlacesRejected(i)

SpecRestaurants == InitPages /\ [][NextRestaurants]_vars

\* ------------------------------------------------- MapPage: the route
\* how many changes of the route parameters a run follows
MaxChanged == 4

\* oLat, oLng, dLat, dLng as read from the URL, in degrees
RouteParams(oLat, oLng, dLat, dLng) == [oLat |-> oLat, oLng |-> oLng, dLat |-> dLat, dLng |-> dLng]

\* the URLs the page is opened with: none, two routes from one origin, a route
\* to the origin itself, a latitude out of range
SearchParams ==
  { Null, RouteParams(12, 77, 13, 78), RouteParams(12, 77, 14, 76),
    RouteParams(12, 77, 12, 77), RouteParams(91, 77, 13, 78) }

\* a [lat, lng] pair
LatLng(lat, lng) == [lat |-> lat, lng |-> lng]

inRange(lat, lng) == lat >= -90 /\ lat <= 90 /\ lng >= -180 /\ lng <= 180

hasRoute(sp) ==
  sp # Null /\ inRange(sp.oLat, sp.oLng) /\ inRange(sp.dLat, sp.dLng)

\* the cleanup of the effect: clearTimeout(timeoutId); controller.abort()
Cleanup(fetches) ==
  [i \in 1..Len(fetches) |-> [fetches[i] EXCEPT !.aborted = TRUE, !.timer = FALSE]]

\* the body of the effect on [searchParams], after the cleanup of the run before
RouteEffect(m, sp) ==
  LET n == [m EXCEPT !.searchParams = sp, !.changed = @ + 1, !.failed = FALSE,
                     !.fetches = Cleanup(@)]
  IN IF ~hasRoute(sp)
     THEN [n EXCEPT !.origin = Null, !.destination = Null, !.route = Null,
                    !.routeError = Null]
     ELSE IF sp.oLat = sp.dLat /\ sp.oLng = sp.dLng
     THEN [n EXCEPT !.origin = LatLng(sp.oLat, sp.oLng), !.destination = LatLng(sp.dLat, sp.dLng),
                    !.route = Null,
                    !.routeError = Str(<<"Origin and destination are the same">>)]
     ELSE [n EXCEPT !.origin = LatLng(sp.oLat, sp.oLng), !.destination = LatLng(sp.dLat, sp.dLng),
                    !.routeError = Null,
                    !.fetches = Append(@, [params |-> sp, run |-> n.changed,
                                           aborted |-> FALSE, timer |-> TRUE])]

MapOnly ==
  UNCHANGED <<osm, restaurantsPage, busPage, assistantPage, recentSearches, savedPlaces>>

\* the rejection of an aborted fetch reaches its catch handler before the event
\* loop takes its next task
AbortsCaught == \A i \in 1..Len(mapPage.fetches) : ~mapPage.fetches[i].aborted

\* the URL changes: the cleanup of the last run, then the effect
Navigate(sp) ==
  /\ AbortsCaught
  /\ mapPage.changed < MaxChanged
  /\ sp # mapPage.searchParams
  /\ mapPage' = RouteEffect(mapPage, sp)
  /\ MapOnly

\* the catch handler and finally, for the fetch of run i that failed with message
Caught(m, i, message) ==
  [m EXCEPT !.routeError = Str(<<message>>), !.route = Null,
            !.failed = @ \/ m.fetches[i].run = m.changed,
            !.fetches = Without(@, i)]

\* the response carries a route: setRoute(latLngs), then finally
RouteFound(i) ==
  /\ AbortsCaught
  /\ i \in 1..Len(mapPage.fetches)
  /\ mapPage' = [mapPage EXCEPT !.route = [to |-> mapPage.fetches[i].params],
                                !.fetches = Without(@, i)]
  /\ MapOnly

\* the response carries no route: throw new Error('No route found')
RouteMissing(i) ==
  /\ AbortsCaught
  /\ i \in 1..Len(mapPage.fetches)
  /\ mapPage' = Caught(mapPage, i, "No route found")
  /\ MapOnly

\* fetch rejects with a TypeError
RouteFetchFailed(i) ==
  /\ AbortsCaught
  /\ i \in 1..Len(mapPage.fetches)
  /\ mapPage' = Caught(mapPage, i, "Failed to fetch")
  /\ MapOnly

\* setTimeout(() => controller.abort(), 12_000) runs out
RouteTimeout(i) ==
  /\ AbortsCaught
  /\ i \in 1..Len(mapPage.fetches)
  /\ mapPage.fetches[i].timer
  /\ mapPage' = [mapPage EXCEPT !.fetches[i].aborted = TRUE, !.fetches[i].timer = FALSE]
  /\ MapOnly

\* an aborted fetch rejects with an AbortError
AbortCaught(i) ==
  /\ i \in 1..Len(mapPage.fetches)
  /\ mapPage.fetches[i].aborted
  /\ mapPage' = Caught(mapPage, i, "Route request timed out")
  /\ MapOnly

NextRoute ==
  \/ \E sp \in SearchParams : Navigate(sp)
  \/ \E i \in 1..MaxChanged : RouteFound(i)
  \/ \E i \in 1..MaxChanged : RouteMissing(i)
  \/ \E i \in 1..MaxChanged : RouteFetchFailed(i)
  \/ \E i \in 1..MaxChanged : RouteTimeout(i)
  \/ \E i \in 1..MaxChanged : AbortCaught(i)

SpecRoute == InitPages /\ [][NextRoute]_vars

\* ------------------------------------------------------------- BusPage
\* how many picks of a From place a run follows
MaxPicked == 3

\* the suggestions the user may pick as the From place
Suggestions ==
  { [label |-> "Mysore", lat |-> 12, lng |-> 76], [label |-> "Hassan", lat |-> 13, lng |-> 76] }

\* the bus stands the provider holds around a place
StandsNear(from) == << [id |-> "node/1", near |-> <<from.lat, from.lng>>] >>

BusOnly ==
  UNCHANGED <<osm, restaurantsPage, mapPage, assistantPage, recentSearches, savedPlaces>>

\* a suggestion is clicked: setFromPick({...}), then the effect on [fromPick]
PickFrom(s) ==
  /\ busPage.picked < MaxPicked
  /\ busPage' = [busPage EXCEPT !.fromPick = s, !.picked = @ + 1,
                                !.loadingStands = TRUE, !.standsError = Null,
                                !.pending = Append(@, [from |-> s])]
  /\ BusOnly

\* the From box is edited: setFromPick(null); the effect returns at once
TypeFrom ==
  /\ busPage.fromPick # Null
  /\ busPage' = [busPage EXCEPT !.fromPick = Null]
  /\ BusOnly

\* a call resolves: .then((res) => setFromBusStands(res)), then finally
StandsResolved(i) ==
  /\ i \in 1..Len(busPage.pending)
  /\ busPage' = [busPage EXCEPT !.fromBusStands = StandsNear(busPage.pending[i].from),
                                !.loadingStands = FALSE,
                                !.pending = Without(@, i)]
  /\ BusOnly

\* a call rejects: .catch((e) => setStandsError(...)), then finally
StandsRejected(i) ==
  /\ i \in 1..Len(busPage.pending)
  /\ busPage' = [busPage EXCEPT !.standsError = Str(<<"Overpass request failed">>),
                                !.loadingStands = FALSE,
                                !.pending = Without(@, i)]
  /\ BusOnly

NextBus ==
  \/ \E s \in Suggestions : PickFrom(s)
  \/ TypeFrom
  \/ \E i \in 1..MaxPicked : StandsResolved(i)
  \/ \E i \in 1..MaxPicked : StandsRejected(i)

SpecBus == InitPages /\ [][NextBus]_vars

\* -------------------------------------------------------- AssistantPage
\* how many alerts a run creates
MaxCreated == 2

\* places along one road, in kilometres from its start: where the device may be
\* and where an alert may be set
RoadKm == {0, 1, 3}

\* the radius of an alert: parseRadiusMeters gives 500 when the text names none
Radii == {500, 2000}

\* distanceMeters between two places on the road
distanceMeters(a, b) == 1000 * (IF a >= b THEN a - b ELSE b - a)

\* what Notification.requestPermission() may leave the permission at
Permissions == {"default", "granted", "denied"}

AssistantOnly ==
  UNCHANGED <<osm, restaurantsPage, busPage, mapPage, recentSearches, savedPlaces>>

\* handleSend for a message that asks for an alert, once the place is geocoded:
\* setAlerts((prev) => [alert, ...prev])
AlertCreated(place, radius, permission) ==
  /\ assistantPage.created < MaxCreated
  /\ assistantPage.permission # "default" => permission = assistantPage.permission
  /\ assistantPage' =
       [assistantPage EXCEPT
          !.created = @ + 1,
          !.permission = permission,
          !.alerts = << [id |-> assistantPage.created + 1, at |-> place,
                         radiusMeters |-> radius, active |-> TRUE, triggered |-> FALSE,
                         messages |-> 0, notifications |-> 0] >> \o @]
  /\ AssistantOnly

\* an alert that is marked as triggered and stays active
FireStaysActive(a, permission) ==
  [a EXCEPT !.triggered = TRUE,
            !.messages = @ + 1,
            !.notifications = IF permission = "granted" THEN @ + 1 ELSE @]

\* the branch of the watch callback that fires: the notification when permitted,
\* the chat message, { ...a, triggered: true, active: false }
Fire(a, permission) ==
  [a EXCEPT !.triggered = TRUE, !.active = FALSE,
            !.messages = @ + 1,
            !.notifications = IF permission = "granted" THEN @ + 1 ELSE @]

\* the function the watch callback maps over the alerts
Watch(a, position, permission) ==
  IF ~a.active \/ a.triggered THEN a
  ELSE IF distanceMeters(position, a.at) <= a.radiusMeters THEN Fire(a, permission)
  ELSE a

\* the success callback of watchPosition
PositionUpdate(position) ==
  /\ assistantPage' =
       [assistantPage EXCEPT
          !.position = Num(position),
          !.alerts = [i \in 1..Len(@) |-> Watch(@[i], position, assistantPage.permission)]]
  /\ AssistantOnly

\* the button Pause / Resume of an alert:
\* x.id === a.id ? { ...x, active: !x.active, triggered: false } : x
\* (messages and notifications count what was fired since the alert was resumed)
ToggleAlert(id) ==
  /\ \E i \in 1..Len(assistantPage.alerts) : assistantPage.alerts[i].id = id
  /\ assistantPage' =
       [assistantPage EXCEPT
          !.alerts = [i \in 1..Len(@) |->
                        IF @[i].id = id
                        THEN [@[i] EXCEPT !.active = ~@, !.triggered = FALSE,
                                          !.messages = 0, !.notifications = 0]
                        ELSE @[i]]]
  /\ AssistantOnly

\* the button Delete of an alert: prev.filter((x) => x.id !== a.id)
DeleteAlert(id) ==
  /\ \E i \in 1..Len(assistantPage.alerts) : assistantPage.alerts[i].id = id
  /\ assistantPage' =
       [assistantPage EXCEPT !.alerts = SelectSeq(@, LAMBDA x : x.id # id)]
  /\ AssistantOnly

\* the button Clear: setAlerts([])
ClearAlerts ==
  /\ assistantPage.alerts # <<>>
  /\ assistantPage' = [assistantPage EXCEPT !.alerts = <<>>]
  /\ AssistantOnly

NextAssistant ==
  \/ \E place \in RoadKm, radius \in Radii, permission \in Permissions :
       AlertCreated(place, radius, permission)
  \/ \E position \in RoadKm : PositionUpdate(position)
  \/ \E id \in 1..MaxCreated : ToggleAlert(id)
  \/ \E id \in 1..MaxCreated : DeleteAlert(id)
  \/ ClearAlerts

SpecAssistant == InitPages /\ [][NextAssistant]_vars

\* ------------------------------- MapPage: recent searches, saved places
\* how many suggestions a user who saves goes through, and one who does not
MaxSuggestions == 27
MaxSearched == 12

\* the k-th suggestion: its label ("a01", "a02", ...) and its coordinates in
\* millionths of a degree, no two within the same hundred-thousandth
Label(k) == <<"a", Digits[(k \div 10) + 1], Digits[(k % 10) + 1]>>
Suggestion(k) == [label |-> Label(k), lat |-> 12000000 + 100 * k, lng |-> 77000000]

\* the label of the k-th suggestion as a user may type it
Typed(k) == <<" ", "A">> \o Tail(Label(k))

\* the sample places of the map
SamplePlaces == { [id |-> 1, name |-> "Central Park", type |-> "Park"],
                  [id |-> 2, name |-> "Downtown Cafe", type |-> "Cafe"] }

\* item.query.toLowerCase() of the entries before the i-th
SeenBefore(list, i) == {ToLowerCase(list[j].query) : j \in 1..(i - 1)}

\* the filter of pushRecentSearch: the first entry of every lower-cased query
RECURSIVE Deduped(_, _)
Deduped(list, i) ==
  IF i > Len(list) THEN <<>>
  ELSE IF ToLowerCase(list[i].query) \in SeenBefore(list, i) THEN Deduped(list, i + 1)
  ELSE <<list[i]>> \o Deduped(list, i + 1)

\* a push that drops only the entries of exactly the same query
pushRecentSearchExact(prev, q, t) ==
  Slice(<<[id |-> t, query |-> q, createdAt |-> t]>>
          \o SelectSeq(prev, LAMBDA item : item.query # q), RECENT_MAX)

\* the updater of pushRecentSearch(q) at time t
pushRecentSearch(prev, q, t) ==
  Slice(Deduped(<<[id |-> t, query |-> q, createdAt |-> t]>> \o prev, 1), RECENT_MAX)

\* `search:${lat.toFixed(5)},${lng.toFixed(5)}` and `${selectedPlace.id}`
SearchId(place) == [search |-> <<ToFixed5(place.lat), ToFixed5(place.lng)>>]
PlaceId(place) == [place |-> place.id]

\* an updater that keeps the entries of the same id
SavedUnfiltered(prev, entry) == Slice(<<entry>> \o prev, SAVED_MAX)

\* the updater of setSavedPlaces in onSaveSearched and handleSaveForLater
Saved(prev, entry) ==
  Slice(<<entry>> \o SelectSeq(prev, LAMBDA p : p.id # entry.id), SAVED_MAX)

ListsOnly == UNCHANGED <<osm, restaurantsPage, busPage, assistantPage>>

\* selectSuggestion(s) for the k-th suggestion
selectSuggestion(k) ==
  /\ mapPage' = [mapPage EXCEPT !.searchedPlace = Suggestion(k),
                                !.searches = Max(@, k)]
  /\ recentSearches' = pushRecentSearch(recentSearches, Suggestion(k).label, now)
  /\ UNCHANGED savedPlaces
  /\ ListsOnly

\* handleSearch up to its await, the box holding text and the suggestion list
\* holding the suggestions of the indices given
handleSearch(text, suggestions) ==
  IF Trim(text) = <<>>
  THEN UNCHANGED vars
  ELSE IF suggestions # <<>>
  THEN selectSuggestion(suggestions[1])
  ELSE /\ recentSearches' = pushRecentSearch(recentSearches, Trim(text), now)
       /\ mapPage' = [mapPage EXCEPT !.geocoding = Append(@, Trim(text))]
       /\ UNCHANGED savedPlaces
       /\ ListsOnly

\* the geocoder answers the i-th pending search: with no place, or with a place
\* that becomes the searched place
Geocoded(i, found) ==
  /\ i \in 1..Len(mapPage.geocoding)
  /\ mapPage' = [mapPage EXCEPT !.geocoding = Without(@, i),
                                !.searchedPlace = IF found = Null THEN @ ELSE found]
  /\ UNCHANGED <<recentSearches, savedPlaces>>
  /\ ListsOnly

\* a click on the marker of a sample place, or on the marker of the user
selectPlace(place) ==
  /\ mapPage.selectedPlace # place
  /\ mapPage' = [mapPage EXCEPT !.selectedPlace = place]
  /\ UNCHANGED <<recentSearches, savedPlaces>>
  /\ ListsOnly

onSaveSearched ==
  /\ IF mapPage.searchedPlace = Null
     THEN UNCHANGED savedPlaces
     ELSE savedPlaces' =
            Saved(savedPlaces, [id |-> SearchId(mapPage.searchedPlace),
                                name |-> mapPage.searchedPlace.label,
                                type |-> "Search", createdAt |-> now])
  /\ UNCHANGED <<mapPage, recentSearches>>
  /\ ListsOnly

handleSaveForLater ==
  /\ IF mapPage.selectedPlace = Null
     THEN UNCHANGED savedPlaces
     ELSE savedPlaces' =
            Saved(savedPlaces, [id |-> PlaceId(mapPage.selectedPlace),
                                name |-> mapPage.selectedPlace.name,
                                type |-> mapPage.selectedPlace.type, createdAt |-> now])
  /\ UNCHANGED <<mapPage, recentSearches>>
  /\ ListsOnly

\* the suggestions a user goes through: the next one not yet taken, or one of
\* the first two again
Taken(k) == k <= MaxSearched /\ k \in {1, 2, mapPage.searches + 1}

\* a user who searches and never saves
NextSearches ==
  \/ \E k \in 1..MaxSearched : Taken(k) /\ selectSuggestion(k)
  \/ \E k \in {1, 2}, suggestions \in {<<>>, <<1>>} :
       /\ Len(mapPage.geocoding) < 1
       /\ \E text \in {<<" ">>, Typed(k)} : handleSearch(text, suggestions)
  \/ \E i \in {1}, found \in {Null, Suggestion(1)} : Geocoded(i, found)

SpecSearches == InitPages /\ [][NextSearches]_vars

\* the searched place is among the saved ones
FoundIsSaved ==
  IF mapPage.searchedPlace = Null THEN TRUE
  ELSE \E i \in 1..Len(savedPlaces) : savedPlaces[i].id = SearchId(mapPage.searchedPlace)

\* a user who saves every place found before looking for the next one, and now
\* and then saves a sample place
NextSaved ==
  \/ \E k \in 1..MaxSuggestions : k = mapPage.searches + 1 /\ FoundIsSaved /\ selectSuggestion(k)
  \/ \E place \in SamplePlaces \cup {Null} : selectPlace(place)
  \/ onSaveSearched
  \/ handleSaveForLater

SpecSaved == InitPages /\ [][NextSaved]_vars

\* ------------------------------------------------------------------ claims
Settled(c) == calls[c].pc \in {"done", "rejected"}

\* the step in which slot c starts a call for request r
Starts(c, r) == calls[c].pc = "idle" /\ calls'[c].pc # "idle" /\ calls'[c].req = r

\* how many entries of a log carry the tag
Count(log, tag) == Cardinality({i \in 1..Len(log) : log[i][1] = tag})

\* a call answered from the cache: no network request was issued
FromCache(call) == call.pc = "done" /\ call.via = "cache" /\ Count(call.log, "try") = 0

\* C1: every call, also one answered from the cache, returns at most L entries,
\* L being its own options.limit clamped into [1,50] (30 when omitted).
C1_AtMostOwnLimit ==
  \A c \in Slots :
    calls[c].pc = "done" =>
      /\ ClampLimit(calls[c].req) \in MIN_LIMIT..MAX_LIMIT
      /\ Len(calls[c].result) <= ClampLimit(calls[c].req)

C3_ExpiredEntryRefetched ==
  [][/\ DOMAIN cache \subseteq DOMAIN cache'
     /\ \A c \in Slots : \A r \in Requests :
          ( /\ Starts(c, r)
            /\ Parts(r.kinds) # <<>>
            /\ CacheKey(r) \in DOMAIN cache
            /\ now - cache[CacheKey(r)].at >= CACHE_TTL_MS ) =>
              /\ calls'[c].pc = "fetching"
              /\ calls'[c].log = <<Try(0)>>
              /\ cache' = cache
     /\ \A c \in Slots :
          (calls[c].pc = "reading" /\ calls[c].hadEntry /\ calls'[c].pc = "done") =>
              /\ cache'[CacheKey(calls[c].req)] = [at |-> now', data |-> calls'[c].result]
              /\ calls[c].attempt = 0 => Count(calls'[c].log, "try") = 1]_vars

\* C3 witness: a call that found an expired entry has completed after a single
\* network request, and the entry now holds its result and the current time.
C3_Witness ==
  \E c \in Slots :
    /\ calls[c].pc = "done" /\ calls[c].via = "network" /\ calls[c].hadEntry
    /\ calls[c].log = <<Try(0)>>
    /\ now > CACHE_TTL_MS
    /\ cache[CacheKey(calls[c].req)] = [at |-> now, data |-> calls[c].result]

\* two requests that agree on everything the fingerprint takes but the kinds
AgreeButKinds(r1, r2) ==
  /\ ToFixed5(r1.lat) = ToFixed5(r2.lat)
  /\ ToFixed5(r1.lng) = ToFixed5(r2.lng)
  /\ ClampRadius(r1) = ClampRadius(r2)
  /\ QueryLower(r1) = QueryLower(r2)

IsPermutation(k1, k2) ==
  /\ Len(k1) = Len(k2)
  /\ \A x \in KnownKinds :
       Cardinality({i \in 1..Len(k1) : k1[i] = x}) = Cardinality({i \in 1..Len(k2) : k2[i] = x})

FetchErrors == {"network", "status", "abort", "syntax", "generic"}

\* a call rejected by overpassFetch (line 61), not by a throw of the normaliser
Exhausted(call) == call.pc = "rejected" /\ call.error.kind \in FetchErrors

\* C5: when every attempt fails, the call rejects after exactly 3 network
\* attempts and exactly 2 backoff waits, each between two attempts: the last
\* thing before the rejection is the third attempt, not a wait.
C5_TwoWaitsBetweenThreeAttempts ==
  \A c \in Slots :
    Exhausted(calls[c]) =>
      /\ Count(calls[c].log, "try") = MAX_ATTEMPTS
      /\ Count(calls[c].log, "sleep") = MAX_ATTEMPTS - 1
      /\ calls[c].log[Len(calls[c].log)][1] = "try"

\* the log of a call whose attempts 0 and 1 failed and whose attempt 2 returned
FailoverLog ==
  << Try(0), Sleep(400), Woke(400), Try(1), Sleep(800), Woke(800), Try(2) >>

\* overpassFetch has returned a parsed response to this call
Returned(call) ==
  /\ call.pc \in {"done", "rejected"}
  /\ call.via = "network"
  /\ call.error.kind \notin FetchErrors

\* C6: when attempts 0 and 1 fail and attempt 2 succeeds, overpassFetch returns
\* the response parsed in attempt 2, after a wait of 400 ms that follows attempt 0
\* and ends before attempt 1, and a wait of 800 ms that follows attempt 1 and ends
\* before attempt 2; nothing follows attempt 2.
C6_FailoverOnThirdAttempt ==
  \A c \in Slots :
    (Returned(calls[c]) /\ calls[c].attempt = 2) =>
      /\ calls[c].log = FailoverLog
      /\ calls[c].pc = "done" => calls[c].result = ResultOf(calls[c].fetched, calls[c].req)
      /\ calls[c].pc = "rejected" => NormalizeThrows(calls[c].fetched)

\* C6 witness: a call has a non-empty result from its third attempt.
C6_Witness ==
  \E c \in Slots :
    /\ Returned(calls[c]) /\ calls[c].attempt = 2
    /\ calls[c].pc = "done" /\ calls[c].result # <<>>

\* the places of a sequence all carry a name that is not empty
AllNamed(places) == \A i \in 1..Len(places) : places[i].name # <<>>

\* C7: every place returned by a call and every place stored in a cache entry has
\* a non-empty name.
C7_NamesNonEmpty ==
  /\ \A c \in Slots : calls[c].pc = "done" => AllNamed(calls[c].result)
  /\ \A k \in DOMAIN cache : AllNamed(cache[k].data)

\* the extracted name of an element of a response is empty
Unnamed(el) ==
  /\ ~IsNullish(el)
  /\ RawNameValue(IF IsNullish(Prop(el, "tags")) THEN EmptyObj ELSE Prop(el, "tags")).t = "str"
  /\ Trim(RawNameValue(IF IsNullish(Prop(el, "tags")) THEN EmptyObj ELSE Prop(el, "tags")).s) = <<>>

\* C7 witness: a response held a located element whose extracted name is empty
\* next to a named one; the call returned and stored the named one alone.
C7_Witness ==
  \E c \in Slots :
    /\ calls[c].pc = "done" /\ calls[c].via = "network"
    /\ Len(Elements(calls[c].fetched)) = 2
    /\ \E i \in 1..2 :
         /\ Unnamed(Elements(calls[c].fetched)[i])
         /\ Coord(Elements(calls[c].fetched)[i], "lat", "lat").t = "num"
    /\ Len(calls[c].result) = 1
    /\ cache[CacheKey(calls[c].req)].data = calls[c].result

\* a parsed response (any value with properties to read) whose `elements` is
\* missing or is no array
NoElementList(data) == ~IsNullish(data) /\ Prop(data, "elements").t # "arr"

\* C8: a received response whose top-level `elements` is missing or is not an
\* array makes the call return an empty list; the call does not reject.
C8_NoElementListIsEmpty ==
  \A c \in Slots :
    (Settled(c) /\ calls[c].via = "network" /\ calls[c].error.kind \notin FetchErrors
       /\ NoElementList(calls[c].fetched)) =>
      /\ calls[c].pc = "done"
      /\ calls[c].result = <<>>

\* C8 witness: a call has returned on a response whose `elements` is present but
\* is not an array.
C8_Witness ==
  \E c \in Slots :
    /\ calls[c].pc = "done"
    /\ NoElementList(calls[c].fetched)
    /\ calls[c].fetched.t = "obj"
    /\ "elements" \in DOMAIN calls[c].fetched.f

\* C9: a call rejects only for network, timeout or status failures that exhaust
\* the retry budget; a body that does not parse, a parsed value that is not an
\* object and elements that are not objects never make it reject.
C9_RejectsOnlyOnTransientFailure ==
  \A c \in Slots :
    calls[c].pc = "rejected" =>
      /\ calls[c].error.kind \in {"network", "abort", "status"}
      /\ Count(calls[c].log, "try") = MAX_ATTEMPTS

\* C10: a request whose kinds expand to no clause returns an empty list at once,
\* with no network request and without a get or a set on the cache.
C10_NoClausesShortCircuit ==
  [][\A c \in Slots : \A r \in Requests :
       (Starts(c, r) /\ \A i \in 1..Len(r.kinds) : r.kinds[i] \notin KnownKinds) =>
         /\ calls'[c].pc = "done"
         /\ calls'[c].result = <<>>
         /\ calls'[c].log = <<>>
         /\ ~calls'[c].touched
         /\ cache' = cache]_vars

\* C10 witness: a request for an unsupported kind alone has returned the empty
\* list while the cache holds a fresh entry with places in it.
C10_Witness ==
  \E c \in Slots :
    /\ calls[c].pc = "done" /\ calls[c].via = "empty"
    /\ calls[c].req.kinds # <<>>
    /\ \E k \in DOMAIN cache : cache[k].data # <<>> /\ now - cache[k].at < CACHE_TTL_MS

\* ---- coordinates
IsNum(v) == v.t = "num"

\* the element's direct (lat, lon) pair and its center (lat, lon) pair
DirectPair(el) == <<Prop(el, "lat"), Prop(el, "lon")>>
CenterPair(el) ==
  IF IsNullish(Prop(el, "center")) THEN <<U, U>>
  ELSE <<Prop(Prop(el, "center"), "lat"), Prop(Prop(el, "center"), "lon")>>

Complete(pair) == IsNum(pair[1]) /\ IsNum(pair[2])

\* the place sits at this pair
PlacedAt(p, pair) == Complete(pair) /\ p.lat = pair[1].n /\ p.lng = pair[2].n

\* the element of a response a returned place was made from
MadeFrom(p, el) ==
  ~IsNullish(el) /\ p.id = ToStr(Prop(el, "type")) \o <<"/">> \o ToStr(Prop(el, "id"))

\* C11: every place a call returns from a response sits at its element's direct
\* (lat, lon) pair or, the element having no complete direct pair, at its center
\* pair; it is never put together from a direct and a center component, and an
\* element with neither pair complete yields no place.
C11_LocationIsOnePair ==
  \A c \in Slots :
    (calls[c].pc = "done" /\ calls[c].via = "network") =>
      \A i \in 1..Len(calls[c].result) :
        \E j \in 1..Len(Elements(calls[c].fetched)) :
          LET p == calls[c].result[i]
              el == Elements(calls[c].fetched)[j]
          IN /\ MadeFrom(p, el)
             /\ \/ PlacedAt(p, DirectPair(el))
                \/ ~Complete(DirectPair(el)) /\ PlacedAt(p, CenterPair(el))

\* ---- addresses
\* a tag value that is present: a string that is not empty
Present(v) == v.t = "str" /\ v.s # <<>>

\* the first present value of a sequence of tag values, if there is one
RECURSIVE FirstPresent(_)
FirstPresent(vs) ==
  IF vs = <<>> THEN U ELSE IF Present(Head(vs)) THEN Head(vs) ELSE FirstPresent(Tail(vs))

\* house number, street, suburb, locality and state, in this order
Components(tags) ==
  << Prop(tags, "addr:housenumber"), Prop(tags, "addr:street"), Prop(tags, "addr:suburb"),
     FirstPresent(<<Prop(tags, "addr:city"), Prop(tags, "addr:town"), Prop(tags, "addr:village")>>),
     Prop(tags, "addr:state") >>

\* the text so far, extended by each present component after a ", "
RECURSIVE Appended(_, _)
Appended(text, vs) ==
  IF vs = <<>> THEN text
  ELSE IF ~Present(Head(vs)) THEN Appended(text, Tail(vs))
  ELSE Appended(IF text = <<>> THEN Head(vs).s ELSE text \o <<",", " ">> \o Head(vs).s, Tail(vs))

\* C12: the address of every returned place is the ", "-joined sequence of the
\* present values of house number, street, suburb, the first present of city /
\* town / village, and state, in this order; absent components leave no
\* separator, and the address is empty when no component is present.
C12_AddressJoinsPresentParts ==
  \A c \in Slots :
    (calls[c].pc = "done" /\ calls[c].via = "network") =>
      \A i \in 1..Len(calls[c].result) :
        \E j \in 1..Len(Elements(calls[c].fetched)) :
          LET p == calls[c].result[i]
              el == Elements(calls[c].fetched)[j]
          IN /\ MadeFrom(p, el)
             /\ p.tags = (IF IsNullish(Prop(el, "tags")) THEN EmptyObj ELSE Prop(el, "tags"))
             /\ p.address = Appended(<<>>, Components(p.tags))
             /\ (\A k \in 1..5 : ~Present(Components(p.tags)[k])) => p.address = <<>>

\* C12 witness: a returned place whose tags lack a street and a city and carry an
\* empty suburb has the address "1, w, t": house number, town, state.
C12_Witness ==
  \E c \in Slots :
    /\ calls[c].pc = "done" /\ calls[c].via = "network"
    /\ Len(calls[c].result) = 1
    /\ Prop(calls[c].result[1].tags, "addr:street") = U
    /\ Prop(calls[c].result[1].tags, "addr:suburb") = Str(<<>>)
    /\ Prop(calls[c].result[1].tags, "addr:city") = Null
    /\ calls[c].result[1].address = <<"1", ",", " ", "w", ",", " ", "t">>

\* ---- text filter
\* sub occurs in s as a substring
Contains(s, sub) ==
  \E i \in 0..Len(s) : \E j \in i..Len(s) : SubSeq(s, i + 1, j) = sub

\* the place is among the places
Among(p, places) == \E k \in 1..Len(places) : places[k] = p

\* C13: with f the trimmed lower-cased text filter, a call that returns from a
\* response retains a normalized place if and only if f is empty or the
\* lower-cased name or the lower-cased address contains f; it returns nothing
\* else. (Stated for responses with no more normalized places than the limit.)
C13_RetainedIffContains ==
  \A c \in Slots :
    LET f == QueryLower(calls[c].req)
        normalized == Mapped(Elements(calls[c].fetched))
    IN (calls[c].pc = "done" /\ calls[c].via = "network"
          /\ Len(normalized) <= ClampLimit(calls[c].req)) =>
         /\ \A i \in 1..Len(normalized) :
              Among(normalized[i], calls[c].result) <=>
                \/ f = <<>>
                \/ Contains(ToLowerCase(normalized[i].name), f)
                \/ Contains(ToLowerCase(normalized[i].address), f)
         /\ \A k \in 1..Len(calls[c].result) : Among(calls[c].result[k], normalized)

\* C13 witness: under the filter "aB", a response with a place "c" at address
\* "aB" and a place "a" at address "b" has returned the first one alone.
C13_Witness ==
  \E c \in Slots :
    /\ calls[c].pc = "done" /\ calls[c].via = "network"
    /\ calls[c].req.query = Str(<<"a", "B">>)
    /\ Len(Elements(calls[c].fetched)) = 2
    /\ Len(calls[c].result) = 1
    /\ calls[c].result[1].name = <<"c">> /\ calls[c].result[1].address = <<"a", "B">>
    /\ \E j \in 1..2 : MadeFrom([id |-> <<"node", "/", "3">>], Elements(calls[c].fetched)[j])

\* ---- order of the stages
\* C14: a call that returns from a response returns the first `limit` entries, in
\* provider order, of the normalized and text-filtered sequence of all elements
\* the provider holds that match the clauses: nothing is cut to `limit` before
\* unnamed elements are dropped and the text filter is applied.
C14_TruncationComesLast ==
  \A c \in Slots :
    (calls[c].pc = "done" /\ calls[c].via = "network" /\ world.payloads = "overpass") =>
      calls[c].result =
        Slice(Filtered(Mapped(world.holds), QueryLower(calls[c].req)), ClampLimit(calls[c].req))

\* ---- failure
\* C15: a call either returns the normalized, filtered and truncated list of the
\* response it got, or rejects and returns nothing. A call whose fetch fails
\* after the retry budget rejects with the error overpassFetch threw; no step of
\* a failing call creates or changes a cache entry, so an expired entry of its
\* fingerprint stays as it was and is not returned.
C15_FailureLeavesCacheAlone ==
  [][/\ \A c \in Slots :
          (calls[c].pc # "done" /\ calls'[c].pc = "done" /\ calls'[c].via = "network") =>
            calls'[c].result = ResultOf(calls'[c].fetched, calls'[c].req)
     /\ \A c \in Slots :
          (calls[c].pc # "rejected" /\ calls'[c].pc = "rejected") =>
            /\ cache' = cache
            /\ calls'[c].result = <<>>
            /\ Exhausted(calls'[c]) =>
                 /\ calls[c].pc = "sleeping" /\ calls[c].attempt = MAX_ATTEMPTS - 1
                 /\ calls'[c].error \in {calls[c].lastErr, GenericErr}
     /\ cache' # cache =>
          \E c \in Slots : calls[c].pc = "reading" /\ calls'[c].pc = "done"]_vars

\* C15 witness: a call that found an expired entry with places in it has been
\* rejected after three failed attempts; the entry is as old as it was.
C15_Witness ==
  \E c \in Slots :
    /\ Exhausted(calls[c]) /\ calls[c].hadEntry
    /\ Count(calls[c].log, "try") = MAX_ATTEMPTS
    /\ cache[CacheKey(calls[c].req)].data # <<>>
    /\ now - cache[CacheKey(calls[c].req)].at >= CACHE_TTL_MS + 3 * TickStep

\* ---- concurrency
InFlight(call) == call.pc \in {"fetching", "reading", "sleeping"}

\* two requests with the same fingerprint
SameFingerprint(r1, r2) == AgreeButKinds(r1, r2) /\ r1.kinds = r2.kinds

\* the fingerprint of the request has no entry under 60 s old
NoFreshEntry(r) ==
  \A k \in DOMAIN cache : k = CacheKey(r) => now - cache[k].at >= CACHE_TTL_MS

\* C16: a call started while another call with the same fingerprint is in flight
\* and no fresh entry exists issues its own network request and leaves the other
\* call as it is; a call that completes returns the result of its own response,
\* does not complete the other call, and sets the entry to its own result and
\* completion time, so that the entry is that of the call that completed last.
C16_SameKeyCallsNotJoined ==
  [][\A c \in Slots : \A d \in Slots \ {c} :
       /\ \A r \in Requests :
            ( /\ Starts(c, r) /\ Parts(r.kinds) # <<>>
              /\ InFlight(calls[d]) /\ SameFingerprint(r, calls[d].req)
              /\ NoFreshEntry(r) ) =>
                /\ calls'[c].pc = "fetching"
                /\ calls'[c].log = <<Try(0)>>
                /\ calls'[d] = calls[d]
       /\ ( /\ calls[c].pc = "reading" /\ calls'[c].pc = "done"
            /\ SameFingerprint(calls[c].req, calls[d].req) ) =>
              /\ calls'[c].result = ResultOf(calls'[c].fetched, calls[c].req)
              /\ calls'[d] = calls[d]
              /\ cache'[CacheKey(calls[c].req)] = [at |-> now, data |-> calls'[c].result]]_vars

\* C16 witness: a call that found no entry when it started has completed after a
\* call of another request with the same fingerprint stored its result, at a
\* later time; the entry holds the result and time of the later one.
C16_Witness ==
  \E c \in Slots : \E r1 \in DOMAIN storedAt :
    /\ calls[c].pc = "done" /\ calls[c].via = "network" /\ ~calls[c].hadEntry
    /\ r1 # calls[c].req /\ SameFingerprint(r1, calls[c].req)
    /\ storedAt[r1] < now
    /\ calls[c].result # <<>>
    /\ cache[CacheKey(r1)] = [at |-> now, data |-> calls[c].result]

\* ---- frame
\* the request of the call that takes a step in slot c
Stepping(c) == IF calls[c].pc = "idle" THEN calls'[c].req ELSE calls[c].req

\* C17: a step of a call for fingerprint F leaves the entry of every stored
\* request with another fingerprint as it is; a call answered from the cache gets
\* the entry of a stored request with its own fingerprint; a call that completes
\* returns the result of its own response. Two callers run concurrently.
C17_OnlyOwnEntryTouched ==
  [][\A c \in Slots :
       /\ \A r2 \in DOMAIN storedAt :
            (calls'[c] # calls[c] /\ ~SameFingerprint(Stepping(c), r2)) =>
              /\ CacheKey(r2) \in DOMAIN cache'
              /\ cache'[CacheKey(r2)] = cache[CacheKey(r2)]
       /\ \A r \in Requests :
            (Starts(c, r) /\ calls'[c].via = "cache") =>
              \E r1 \in DOMAIN storedAt :
                /\ SameFingerprint(r, r1)
                /\ now - storedAt[r1] < CACHE_TTL_MS
                /\ calls'[c].result = cache[CacheKey(r1)].data
       /\ (calls[c].pc = "reading" /\ calls'[c].pc = "done") =>
            /\ calls'[c].result = ResultOf(calls'[c].fetched, calls[c].req)
            /\ DOMAIN cache' = DOMAIN cache \cup {CacheKey(calls[c].req)}]_vars

\* C17 witness: a call has completed with a place while a call of another
\* fingerprint is in flight; the other fingerprint's entry, stored earlier and
\* empty, is as it was.
C17_Witness ==
  \E c \in Slots : \E d \in Slots \ {c} : \E r2 \in DOMAIN storedAt :
    /\ calls[c].pc = "done" /\ calls[c].via = "network" /\ calls[c].result # <<>>
    /\ InFlight(calls[d]) /\ calls[d].req = r2
    /\ ~SameFingerprint(calls[c].req, r2)
    /\ storedAt[r2] < now
    /\ cache[CacheKey(r2)] = [at |-> storedAt[r2], data |-> <<>>]
    /\ cache[CacheKey(calls[c].req)] = [at |-> now, data |-> calls[c].result]

\* ---- endpoints
\* C18: the k-th request of every call (k = 1, 2, 3) goes to endpoint
\* (k - 1) mod 3 of the list; no call issues more than 3 requests; the first
\* request of every call goes to the first endpoint, whatever happened before.
C18_EndpointsRotatePerCall ==
  [][\A c \in Slots :
       /\ Len(calls'[c].hits) <= MAX_ATTEMPTS
       /\ Len(calls'[c].hits) = Count(calls'[c].log, "try")
       /\ \A k \in 1..Len(calls'[c].hits) :
            calls'[c].hits[k] = OVERPASS_ENDPOINTS[((k - 1) % Len(OVERPASS_ENDPOINTS)) + 1]
       /\ InFlight(calls'[c]) => Len(calls'[c].hits) = calls'[c].attempt + 1
       /\ (calls[c].pc = "idle" /\ calls'[c].pc = "fetching") =>
            calls'[c].hits = <<"https://overpass-api.de/api/interpreter">>]_vars

\* C18 witness: while the cache holds an entry, a call is waiting for its third
\* request, having gone to the three endpoints in their order.
C18_Witness ==
  \E c \in Slots :
    /\ calls[c].pc = "fetching" /\ calls[c].attempt = 2
    /\ calls[c].hadEntry
    /\ calls[c].hits = << "https://overpass-api.de/api/interpreter",
                          "https://overpass.kumi.systems/api/interpreter",
                          "https://overpass.nchc.org.tw/api/interpreter" >>

\* ---- the error of an exhausted call
\* C19: a call rejected after three failed attempts is rejected with the error
\* its third attempt raised, not an earlier one; when what the third attempt
\* raised is no Error, it is rejected with the generic "request failed" error.
C19_LastErrorSurfaced ==
  \A c \in Slots :
    Exhausted(calls[c]) =>
      /\ calls[c].lastErr.attempt = MAX_ATTEMPTS - 1
      /\ calls[c].lastErr.kind # "foreign" => calls[c].error = calls[c].lastErr
      /\ calls[c].lastErr.kind = "foreign" => calls[c].error = GenericErr

\* C19 witness: a call has been rejected with the error of a third attempt that
\* ran into its timeout, 12 s or more after the call's first request.
C19_Witness ==
  \E c \in Slots :
    /\ Exhausted(calls[c])
    /\ calls[c].error = Err("abort", MAX_ATTEMPTS - 1)
    /\ Count(calls[c].log, "try") = MAX_ATTEMPTS

\* ---- the timeout of an attempt
\* C20: an attempt whose 12 s have run out without a parsed response, be it
\* waiting for the response or reading its body, ends: it is cancelled and the
\* call goes on to the backoff, so that no call hangs on a provider that stalls.
C20_TimedOutAttemptEnds ==
  \A c \in Slots :
    (calls[c].pc \in {"fetching", "reading"} /\ now >= calls[c].due)
      ~> (calls[c].pc \notin {"fetching", "reading"})

\* ---- display names
\* a tag value that is neither absent nor empty nor blank
Usable(v) == v.t = "str" /\ Trim(v.s) # <<>>

\* the first usable value of a sequence of tag values, if there is one
RECURSIVE FirstUsable(_)
FirstUsable(vs) ==
  IF vs = <<>> THEN U ELSE IF Usable(Head(vs)) THEN Head(vs) ELSE FirstUsable(Tail(vs))

\* the name, brand and operator tags of an element
NameTags(el) ==
  << Prop(Prop(el, "tags"), "name"), Prop(Prop(el, "tags"), "brand"),
     Prop(Prop(el, "tags"), "operator") >>

\* C21: a located element of a response yields a place if and only if one of its
\* name, brand and operator tags is neither absent nor empty nor blank, and the
\* place is named after the first such tag in that order: an element with a
\* blank name and a brand is kept and named after the brand.
C21_NamedAfterFirstNonEmpty ==
  \A c \in Slots :
    (calls[c].pc = "done" /\ calls[c].via = "network" /\ world.payloads = "names") =>
      \A j \in 1..Len(Elements(calls[c].fetched)) :
        LET el == Elements(calls[c].fetched)[j]
            first == FirstUsable(NameTags(el))
        IN IF first = U
           THEN \A i \in 1..Len(calls[c].result) : ~MadeFrom(calls[c].result[i], el)
           ELSE \E i \in 1..Len(calls[c].result) :
                  MadeFrom(calls[c].result[i], el) /\ calls[c].result[i].name = Trim(first.s)

\* ---- the query
\* the clause lists of the categories, one after the other in the order given
RECURSIVE Concatenated(_)
Concatenated(kinds) ==
  IF kinds = <<>> THEN <<>> ELSE kindToOverpass(Head(kinds)) \o Concatenated(Tail(kinds))

\* a call that has built its query
Built(call) == call.via \in {"network", "cache"}

\* C23: the query a call builds depends on its request alone: its statements
\* are the clauses of the requested categories, concatenated in the order the
\* categories are given, each with the one around filter (radius clamped to
\* 100..50000, the origin as given); its limit directive is the request's limit
\* clamped to 1..50 (30 when omitted); in every step, whatever the cache holds
\* and whatever calls ran before, the query is this function of the categories,
\* the radius, the origin and the limit, in which the text filter has no part.
C23_QueryDependsOnRequestOnly ==
  [][\A c \in Slots :
       Built(calls'[c]) =>
         LET r == calls'[c].req
             q == calls'[c].q
         IN /\ [i \in 1..Len(q.stmts) |-> q.stmts[i].clause] = Concatenated(r.kinds)
            /\ \A i \in 1..Len(q.stmts) :
                 q.stmts[i].around =
                   [radius |-> Max(100, Min(r.radiusMeters, 50000)), lat |-> r.lat, lng |-> r.lng]
            /\ q.out = Max(1, Min(IF r.limit = U THEN 30 ELSE r.limit.n, 50))]_vars

\* C23 witness: a call whose radius is above the maximum and whose text filter is
\* blank waits for the provider while the cache holds the result of an earlier
\* call; each of its six statements carries the radius 50000.
C23_Witness ==
  \E c \in Slots :
    /\ calls[c].pc = "fetching"
    /\ calls[c].req = Wider
    /\ DOMAIN cache # {}
    /\ Len(calls[c].q.stmts) = 6
    /\ \A i \in 1..6 : calls[c].q.stmts[i].around.radius = MAX_RADIUS
    /\ calls[c].q.stmts[4].clause = <<"node", "amenity=hospital">>

\* ---- the expansion of a category
\* the geometry kinds of the provider's data model
Geometries == {"node", "way", "relation"}

\* the clauses of a query and the tag families they name
ClausesOf(q) == {q.stmts[i].clause : i \in 1..Len(q.stmts)}
FamiliesOf(q) == {cl[2] : cl \in ClausesOf(q)}

\* a call that asks for one category of the closed set
AsksOne(call) == Built(call) /\ Len(call.req.kinds) = 1 /\ call.req.kinds[1] \in KnownKinds

\* every family of the query appears for each of the three geometry kinds
AllGeometries(q) == ClausesOf(q) = Geometries \X FamiliesOf(q)

\* C24 as stated: a query for `attraction` names five tag families; a query for
\* any one category of the closed set has at least one clause, and each of its
\* families appears for node, way and relation.
C24_AttractionHasFiveFamilies ==
  \A c \in Slots :
    /\ calls[c].pc # "idle" /\ Len(calls[c].req.kinds) = 1
         /\ calls[c].req.kinds[1] \in KnownKinds => Built(calls[c])
    /\ AsksOne(calls[c]) =>
         /\ calls[c].q.stmts # <<>>
         /\ AllGeometries(calls[c].q)
         /\ calls[c].req.kinds = <<"attraction">> =>
              Cardinality(FamiliesOf(calls[c].q)) = 5

\* C24, amended: a query for `attraction` names four tag families
\* (tourism=attraction, tourism=museum, historic, amenity=place_of_worship); a
\* query for any one category of the closed set has at least one clause (the
\* call does not take the empty-clause short-circuit), and each of its families
\* appears for node, way and relation.
C24_AttractionHasFourFamilies ==
  \A c \in Slots :
    /\ calls[c].pc # "idle" /\ Len(calls[c].req.kinds) = 1
         /\ calls[c].req.kinds[1] \in KnownKinds => Built(calls[c])
    /\ AsksOne(calls[c]) =>
         /\ calls[c].q.stmts # <<>>
         /\ AllGeometries(calls[c].q)
         /\ calls[c].req.kinds = <<"attraction">> =>
              FamiliesOf(calls[c].q) =
                {"tourism=attraction", "tourism=museum", "historic", "amenity=place_of_worship"}

\* C24 witness: a call for `attraction` waits for the provider, its query made of
\* twelve statements, the last one for relations tagged as places of worship.
C24_Witness ==
  \E c \in Slots :
    /\ calls[c].pc = "fetching"
    /\ calls[c].req.kinds = <<"attraction">>
    /\ Len(calls[c].q.stmts) = 12
    /\ calls[c].q.stmts[12].clause = <<"relation", "amenity=place_of_worship">>
    /\ Cardinality(FamiliesOf(calls[c].q)) = 4

\* ---- empty results
\* C25: a call that received a response and made the empty list of it stores the
\* empty list under its key with the time of completion; a request started while
\* the entry of its key holds the empty list and is under 60 s old is answered
\* with the empty list from the cache, without a network request and without a
\* change to the cache.
C25_EmptyResultIsCached ==
  [][\A c \in Slots :
       /\ (calls[c].pc = "reading" /\ calls'[c].pc = "done" /\ calls'[c].result = <<>>) =>
            /\ CacheKey(calls[c].req) \in DOMAIN cache'
            /\ cache'[CacheKey(calls[c].req)] = [at |-> now, data |-> <<>>]
       /\ \A r \in DOMAIN storedAt :
            ( /\ Starts(c, r)
              /\ cache[CacheKey(r)].data = <<>>
              /\ now - cache[CacheKey(r)].at < CACHE_TTL_MS ) =>
                /\ FromCache(calls'[c])
                /\ calls'[c].result = <<>>
                /\ calls'[c].hits = <<>>
                /\ cache' = cache]_vars

\* C25 witness: a repeat of a request whose response yielded the empty list,
\* started a positive time less than 60 s after the store, has been answered
\* with the empty list from the cache.
C25_Witness ==
  \E c \in Slots :
    /\ FromCache(calls[c])
    /\ calls[c].req \in DOMAIN storedAt
    /\ cache[CacheKey(calls[c].req)] = [at |-> storedAt[calls[c].req], data |-> <<>>]
    /\ now - storedAt[calls[c].req] \in 1..(CACHE_TTL_MS - 1)
    /\ calls[c].result = <<>>
    /\ calls[c].hits = <<>>

\* ---- RestaurantsPage
\* C22: RestaurantsPage has at most one call of fetchNearbyOsmPlaces pending at
\* any time, and an invocation of fetchPlaces with a known location issues a
\* call exactly when none is pending: it is suppressed while an earlier call is
\* pending, and only then.
C22_SuppressedOnlyWhileInFlight ==
  [][/\ Len(restaurantsPage'.pending) <= 1
     /\ ( /\ restaurantsPage'.invoked = restaurantsPage.invoked + 1
          /\ restaurantsPage'.location # Null ) =>
            IF restaurantsPage.pending = <<>>
            THEN Len(restaurantsPage'.pending) = 1
            ELSE restaurantsPage'.pending = restaurantsPage.pending]_vars

\* ---- MapPage: the route
\* C26: in every state of MapPage, routeError is set only if the fetch issued
\* for the current route parameters failed or timed out, or the current origin
\* equals the current destination; a fetch superseded by a change of the
\* parameters leaves the route state alone.
C26_SupersededFetchHasNoEffect ==
  mapPage.routeError # Null =>
    \/ mapPage.failed
    \/ mapPage.origin # Null /\ mapPage.origin = mapPage.destination

\* ---- BusPage
\* C27: whenever BusPage has no bus-stand call pending, a From place is picked
\* and no error is shown, fromBusStands is the result for the place picked last;
\* and loadingStands is false only when no bus-stand call is pending.
C27_LatestPickWins ==
  /\ ( /\ busPage.pending = <<>>
       /\ busPage.fromPick # Null
       /\ busPage.standsError = Null ) =>
         busPage.fromBusStands = StandsNear(busPage.fromPick)
  /\ ~busPage.loadingStands => busPage.pending = <<>>

\* ---- AssistantPage
\* the alert with an id, in a list that holds it
Holds(alerts, id) == \E i \in 1..Len(alerts) : alerts[i].id = id
AlertOf(alerts, id) == alerts[CHOOSE i \in 1..Len(alerts) : alerts[i].id = id]

\* the step fires the alert: a chat message for it is added
Fires(id) ==
  /\ Holds(assistantPage.alerts, id) /\ Holds(assistantPage'.alerts, id)
  /\ AlertOf(assistantPage'.alerts, id).messages > AlertOf(assistantPage.alerts, id).messages

\* C28: no alert is ever both active and triggered; a step fires an alert only
\* if before it the alert is active and not triggered and the position reported
\* is within its radius, the notification is shown only together with the chat
\* message, and after it the alert is triggered and not active; since an alert
\* was created or last switched by the user, it has fired at most once.
C28_AlertFiresOnceUntilResumed ==
  [][/\ \A i \in 1..Len(assistantPage'.alerts) :
          LET a == assistantPage'.alerts[i]
          IN /\ ~(a.active /\ a.triggered)
             /\ a.messages <= 1
             /\ a.notifications <= a.messages
             /\ a.messages = 1 => a.triggered /\ ~a.active
     /\ \A id \in 1..MaxCreated :
          Fires(id) =>
            LET before == AlertOf(assistantPage.alerts, id)
                after == AlertOf(assistantPage'.alerts, id)
            IN /\ before.active /\ ~before.triggered
               /\ assistantPage'.position # Null
               /\ distanceMeters(assistantPage'.position.n, before.at) <= before.radiusMeters
               /\ after.triggered /\ ~after.active]_vars

\* C28 witness: with the device one kilometre along the road, an alert set there
\* has fired once, with a notification, and is triggered and not active, and an
\* alert set two kilometres further with a radius of 500 m is active and has
\* not fired.
C28_Witness ==
  /\ assistantPage.position = Num(1)
  /\ Len(assistantPage.alerts) = 2
  /\ \E i, j \in 1..2 :
       /\ assistantPage.alerts[i].at = 1
       /\ assistantPage.alerts[i].triggered /\ ~assistantPage.alerts[i].active
       /\ assistantPage.alerts[i].messages = 1 /\ assistantPage.alerts[i].notifications = 1
       /\ assistantPage.alerts[j].at = 3 /\ assistantPage.alerts[j].radiusMeters = 500
       /\ assistantPage.alerts[j].active /\ ~assistantPage.alerts[j].triggered
       /\ assistantPage.alerts[j].messages = 0

\* ---- recent searches
\* two characters that are one letter in its two cases
CasePair(x, y) == <<x, y>> \in {<<"a", "A">>, <<"b", "B">>, <<"c", "C">>}

\* two strings that are equal when case is ignored
EqualIgnoringCase(s, t) ==
  /\ Len(s) = Len(t)
  /\ \A i \in 1..Len(s) : s[i] = t[i] \/ CasePair(s[i], t[i]) \/ CasePair(t[i], s[i])

\* the query of the search a step has made: the label of the suggestion taken,
\* or the text sent to the geocoder
Searched ==
  IF Len(mapPage'.geocoding) > Len(mapPage.geocoding)
  THEN mapPage'.geocoding[Len(mapPage'.geocoding)]
  ELSE mapPage'.searchedPlace.label

\* C29: the list of recent searches never holds more than 10 entries nor two
\* entries whose queries are equal ignoring case; a search puts its query first,
\* as given, followed by the entries the list held before, in their order, less
\* those whose query equals the new one ignoring case, cut to 10 in all.
C29_RecentSearchesKept ==
  [][/\ Len(recentSearches') <= 10
     /\ \A i, j \in 1..Len(recentSearches') :
          i # j => ~EqualIgnoringCase(recentSearches'[i].query, recentSearches'[j].query)
     /\ recentSearches' # recentSearches =>
          /\ recentSearches'[1].query = Searched
          /\ Tail(recentSearches') =
               Slice(SelectSeq(recentSearches,
                               LAMBDA item : ~EqualIgnoringCase(item.query, Searched)), 9)]_vars

\* C29 witness: after twelve different searches the list holds ten entries; the
\* first is "A01", typed in capitals after "a01" had been searched and had left
\* the list, and the last is "a04".
C29_Witness ==
  /\ mapPage.searches = 12
  /\ Len(recentSearches) = 10
  /\ recentSearches[1].query = <<"A", "0", "1">>
  /\ recentSearches[2].query = Label(12)
  /\ recentSearches[10].query = Label(4)

\* ---- saved places
\* the id of the place a step has saved, when the step has changed the list
SavedId == savedPlaces'[1].id

\* C30: the list of saved places never holds more than 25 entries nor two entries
\* of one id; a save puts the place saved (the searched place or the selected
\* place) first, followed by the entries the list held before, in their order,
\* less the one of the same id, cut to 25 in all.
C30_SavedPlacesKept ==
  [][/\ Len(savedPlaces') <= 25
     /\ \A i, j \in 1..Len(savedPlaces') :
          i # j => savedPlaces'[i].id # savedPlaces'[j].id
     /\ savedPlaces' # savedPlaces =>
          /\ \/ /\ mapPage.searchedPlace # Null
                /\ SavedId = [search |-> <<ToFixed5(mapPage.searchedPlace.lat),
                                           ToFixed5(mapPage.searchedPlace.lng)>>]
                /\ savedPlaces'[1].name = mapPage.searchedPlace.label
             \/ /\ mapPage.selectedPlace # Null
                /\ SavedId = [place |-> mapPage.selectedPlace.id]
                /\ savedPlaces'[1].name = mapPage.selectedPlace.name
          /\ Tail(savedPlaces') =
               Slice(SelectSeq(savedPlaces, LAMBDA p : p.id # SavedId), 24)]_vars

\* C30 witness: the list holds 25 places; the first is the sample place 1, saved
\* after the 26th place found was saved; the sample place 2 is further down; the
\* places found first have left the list, and the 4th place found is the last.
C30_Witness ==
  /\ Len(savedPlaces) = 25
  /\ mapPage.searches = 26
  /\ savedPlaces[1].id = PlaceId([id |-> 1])
  /\ savedPlaces[2].id = SearchId(Suggestion(26))
  /\ savedPlaces[25].id = SearchId(Suggestion(4))
  /\ \E i \in 3..24 : savedPlaces[i].id = PlaceId([id |-> 2])

====
